---- MODULE Spec2Model ----
(***************************************************************************)
(* Model of venvoy's container-runtime abstraction                         *)
(* (src/src/venvoy/container_manager.py): runtime probing, runtime         *)
(* selection, image-name normalisation and the ContainerManager life       *)
(* cycle.                                                                  *)
(*                                                                         *)
(* Strings that the code inspects character by character (image            *)
(* references) are sequences of tokens: the separators "/" and ":" are     *)
(* tokens of their own and every other token is a run of characters that   *)
(* contains no separator.  Two word tokens are never adjacent.             *)
(***************************************************************************)
EXTENDS Integers, Sequences, FiniteSets, TLC

VARIABLES
    env,        \* the process environment: variables, files, binaries on PATH
    pc,         \* "new" | "ready" | "failed" | "selected" | "probed" | "normalized"
    runtime,    \* ContainerManager.runtime ("none" before construction)
    sif_dir,    \* ContainerManager.sif_dir ("none" before construction)
    sel,        \* outcome of the last _detect_best_runtime call
    selectRuns, \* number of _detect_best_runtime calls made so far
    lastProbe,  \* outcome of the last direct _check_runtime_available call
    lastOp,     \* outcome of the last manager operation
    opCount,    \* number of manager operations performed
    img,        \* the image reference handed to _normalize_image_name or the SIF cache
    norm,       \* its result, and the result of normalising that again
    lastArgs,   \* arguments of the last operation and what the world did during it
    mon,        \* the package-change watcher thread and the container it polls
    cache       \* the files of the SIF cache, each with the reference it was pulled for

vars == <<env, pc, runtime, sif_dir, sel, selectRuns, lastProbe, lastOp,
          opCount, img, norm, lastArgs, mon, cache>>

----------------------------------------------------------------------------
(* ContainerRuntime enum and the orders the selector walks.                *)

DOCKER == "docker"
APPTAINER == "apptainer"
SINGULARITY == "singularity"
PODMAN == "podman"

ContainerRuntime == {DOCKER, APPTAINER, SINGULARITY, PODMAN}

SimpleRuntimes == {APPTAINER, SINGULARITY, PODMAN}

HpcOrder == <<APPTAINER, SINGULARITY, PODMAN>>

\* GeneralOrder with docker tried ahead of podman.
GeneralOrder_DockerFirst == <<APPTAINER, SINGULARITY, DOCKER, PODMAN>>

GeneralOrder == <<APPTAINER, SINGULARITY, PODMAN, DOCKER>>

\* runtime_map without its "podman" entry.
runtime_map_NoPodman == [h \in {DOCKER, APPTAINER, SINGULARITY} |-> h]

runtime_map == [h \in ContainerRuntime |-> h]

----------------------------------------------------------------------------
(* The environment.                                                        *)

\* Outcome of `<bin> --version` run with check=True for a binary found on PATH;
\* "absent" = shutil.which found nothing.
SimpleOutcomes == {"absent", "ok", "nonzero", "fnf", "oserror"}

\* Outcome of the first `docker --version` (timeout=5, no check): what the
\* output says, or how the spawn failed.
DockerV1Outcomes == {"plain", "podman", "timeout", "fnf", "oserror"}

DockerV2Outcomes == {"ok", "nonzero", "fnf", "oserror"}

DockerBuildxOutcomes == {"sig", "nosig", "nonzero", "fnf", "oserror"}

DockerInfoOutcomes == {"ok", "nonzero", "fnf", "oserror"}

MarkerVars == {"SINGULARITY_NAME", "SINGULARITY_CONTAINER", "APPTAINER_NAME",
               "APPTAINER_CONTAINER", "DOCKER_CONTAINER", "PODMAN_CONTAINER"}

\* HOSTNAME: unset, or a value with no pattern, with an HPC pattern ("node"),
\* or containing "container".
Hostnames == {"unset", "plain", "node", "container"}

CgroupContents == {"absent", "plain", "docker", "containerd", "crio", "podman",
                   "unreadable"}

HintValues == {"", DOCKER, APPTAINER, SINGULARITY, PODMAN, "bogus"}

\* Largest number of container-marker variables set at once.
MaxMarkers == 1

DockerAbsent ==
    [which |-> FALSE, v1 |-> "plain", v2 |-> "ok", buildx |-> "sig", info |-> "ok"]

DockerWorking ==
    [which |-> TRUE, v1 |-> "plain", v2 |-> "ok", buildx |-> "sig", info |-> "ok"]

\* Behaviours of a docker binary on PATH.  A call the probe cannot reach
\* after an earlier outcome keeps its default.
DockerAfterBuildx ==
    {[DockerWorking EXCEPT !.buildx = b, !.info = i] :
        b \in {"sig", "nonzero", "fnf"}, i \in DockerInfoOutcomes}
    \cup {[DockerWorking EXCEPT !.buildx = b] : b \in {"nosig", "oserror"}}

DockerAfterV2 ==
    DockerAfterBuildx
    \cup {[DockerWorking EXCEPT !.v2 = v] : v \in DockerV2Outcomes \ {"ok"}}

DockerBinaries ==
    {DockerAbsent}
    \cup {[DockerWorking EXCEPT !.v1 = v] : v \in {"podman", "oserror"}}
    \cup {[d EXCEPT !.v1 = v] : d \in DockerAfterV2, v \in {"plain", "timeout", "fnf"}}

BaseEnv ==
    [hint |-> "", sched |-> FALSE, hostname |-> "unset", markers |-> {},
     dockerenv |-> FALSE, cgroup |-> "absent", workspace |-> FALSE,
     homeVenvoy |-> FALSE,
     bin |-> [r \in SimpleRuntimes |-> "absent"], docker |-> DockerAbsent,
     homeWritable |-> TRUE, mkdirHome |-> TRUE, mkdirTmp |-> TRUE]

----------------------------------------------------------------------------
(* Results of calls: exc is "none" or the exception that left the call.    *)

Returned(v, calls) == [calls |-> calls, exc |-> "none", ret |-> v]

Raised(x, calls) == [calls |-> calls, exc |-> x, ret |-> FALSE]

\* The same for a call that returns a runtime.
RaisedNoRuntime(x, calls) == [calls |-> calls, exc |-> x, ret |-> "none"]

\* A string without separators, as a one-token string.
W(x) == <<x>>

\* A PATH lookup (shutil.which) and a subprocess (subprocess.run) in a call log.
WhichCall(b) == [bin |-> b, kind |-> "which", args |-> <<>>]

RunCall(b, args) == [bin |-> b, kind |-> "run", args |-> args]

----------------------------------------------------------------------------
(* Runtime probe: ContainerManager._check_runtime_available.              *)

\* Branches for apptainer, singularity and podman: PATH lookup, then
\* `<bin> --version` with check=True.  CalledProcessError and
\* FileNotFoundError are caught by the outer handler; any other OSError
\* (PermissionError) is not.
CheckSimpleRuntime(e, r) ==
    LET w == <<WhichCall(r)>>
        v == w \o <<RunCall(r, <<W("--version")>>)>>
    IN  CASE e.bin[r] = "absent"  -> Returned(FALSE, w)
          [] e.bin[r] = "ok"      -> Returned(TRUE, v)
          [] e.bin[r] = "nonzero" -> Returned(FALSE, v)
          [] e.bin[r] = "fnf"     -> Returned(FALSE, v)
          [] e.bin[r] = "oserror" -> Raised("OSError", v)

\* `docker info` with check=True, as the last step of the docker branch.
DockerDaemonCheck(e, calls) ==
    LET c == calls \o <<RunCall(DOCKER, <<W("info")>>)>>
    IN  CASE e.docker.info = "ok"      -> Returned(TRUE, c)
          [] e.docker.info = "nonzero" -> Returned(FALSE, c)
          [] e.docker.info = "fnf"     -> Returned(FALSE, c)
          [] e.docker.info = "oserror" -> Raised("OSError", c)

\* The handler of the buildx try block: prefer podman when it is on PATH,
\* otherwise trust `docker info`.
DockerBuildxFailed(e, calls) ==
    LET c == calls \o <<WhichCall(PODMAN)>>
    IN  IF e.bin[PODMAN] # "absent" THEN Returned(FALSE, c)
        ELSE DockerDaemonCheck(e, c)

\* The buildx try block.  A CalledProcessError or FileNotFoundError of the
\* `docker info` run inside it lands in the same handler.
DockerBuildxCheck(e, calls) ==
    LET c == calls \o <<RunCall(DOCKER, <<W("buildx"), W("version")>>)>>
        i == c \o <<RunCall(DOCKER, <<W("info")>>)>>
    IN  CASE e.docker.buildx = "sig" ->
                 IF e.docker.info \in {"nonzero", "fnf"}
                 THEN DockerBuildxFailed(e, i)
                 ELSE DockerDaemonCheck(e, c)
          [] e.docker.buildx = "nosig"   -> Returned(FALSE, c)
          [] e.docker.buildx \in {"nonzero", "fnf"} -> DockerBuildxFailed(e, c)
          [] e.docker.buildx = "oserror" -> Raised("OSError", c)

\* Second `docker --version`, with check=True.
DockerVersionCheck(e, calls) ==
    LET c == calls \o <<RunCall(DOCKER, <<W("--version")>>)>>
    IN  CASE e.docker.v2 = "ok"      -> DockerBuildxCheck(e, c)
          [] e.docker.v2 = "nonzero" -> Returned(FALSE, c)
          [] e.docker.v2 = "fnf"     -> Returned(FALSE, c)
          [] e.docker.v2 = "oserror" -> Raised("OSError", c)

\* The docker branch: PATH lookup, first `docker --version` (timeout=5, no
\* check) whose output is searched for "podman", then the checks above.
\* CheckDockerRuntime without the search for "podman" in the version output.
CheckDockerRuntime_NoShimCheck(e) ==
    LET w == <<WhichCall(DOCKER)>>
        v == w \o <<RunCall(DOCKER, <<W("--version")>>)>>
    IN  IF ~e.docker.which THEN Returned(FALSE, w)
        ELSE CASE e.docker.v1 = "oserror" -> Raised("OSError", v)
               [] OTHER -> DockerVersionCheck(e, v)

CheckDockerRuntime(e) ==
    LET w == <<WhichCall(DOCKER)>>
        v == w \o <<RunCall(DOCKER, <<W("--version")>>)>>
    IN  IF ~e.docker.which THEN Returned(FALSE, w)
        ELSE CASE e.docker.v1 = "podman"  -> Returned(FALSE, v)
               [] e.docker.v1 = "oserror" -> Raised("OSError", v)
               [] e.docker.v1 \in {"plain", "timeout", "fnf"} ->
                      DockerVersionCheck(e, v)

_check_runtime_available(e, r) ==
    IF r = DOCKER THEN CheckDockerRuntime(e) ELSE CheckSimpleRuntime(e, r)

----------------------------------------------------------------------------
(* Context detectors.                                                      *)

hpc_patterns == {"node"}

\* _is_hpc_environment: HOSTNAME is itself one of the indicator variables.
_is_hpc_environment(e) ==
    \/ e.sched
    \/ e.hostname # "unset"
    \/ e.hostname \in hpc_patterns

\* _is_inside_container: a failing read of /proc/1/cgroup is swallowed.
_is_inside_container(e) ==
    \/ e.markers # {}
    \/ e.dockerenv
    \/ e.cgroup \in {"docker", "containerd", "crio", "podman"}
    \/ (e.workspace /\ e.homeVenvoy)

\* _detect_runtime_from_environment: returns a runtime or "none" (None).
\* /proc/1/cgroup is opened without a handler.
_detect_runtime_from_environment(e) ==
    CASE e.markers \cap {"SINGULARITY_NAME", "SINGULARITY_CONTAINER"} # {} ->
             Returned(SINGULARITY, <<>>)
      [] OTHER ->
    CASE e.markers \cap {"APPTAINER_NAME", "APPTAINER_CONTAINER"} # {} ->
             Returned(APPTAINER, <<>>)
      [] OTHER ->
    CASE "DOCKER_CONTAINER" \in e.markers \/ e.hostname = "container" ->
             Returned(DOCKER, <<>>)
      [] OTHER ->
    CASE "PODMAN_CONTAINER" \in e.markers -> Returned(PODMAN, <<>>)
      [] OTHER ->
    CASE e.dockerenv -> Returned(DOCKER, <<>>)
      [] OTHER ->
    CASE e.cgroup = "unreadable" -> RaisedNoRuntime("OSError", <<>>)
      [] e.cgroup \in {"docker", "containerd"} -> Returned(DOCKER, <<>>)
      [] OTHER -> Returned("none", <<>>)

----------------------------------------------------------------------------
(* Runtime selector: ContainerManager._detect_best_runtime.                *)

\* An if/elif chain of probes: the first probe that returns True decides,
\* a probe that raises ends the selection, and "none" means no branch was
\* taken.
RECURSIVE ProbeChain(_, _, _, _)
ProbeChain(e, order, i, calls) ==
    IF i > Len(order) THEN Returned("none", calls)
    ELSE LET p == _check_runtime_available(e, order[i])
             c == calls \o p.calls
         IN  IF p.exc # "none" THEN RaisedNoRuntime(p.exc, c)
             ELSE IF p.ret THEN Returned(order[i], c)
             ELSE ProbeChain(e, order, i + 1, c)

\* The fallback after every probe said no.
SelectFromEnvironment(e, calls) ==
    LET m == _detect_runtime_from_environment(e)
    IN  IF m.exc # "none" THEN RaisedNoRuntime(m.exc, calls)
        ELSE IF m.ret # "none" THEN Returned(m.ret, calls)
        ELSE RaisedNoRuntime("NoRuntimeFound", calls)

SelectGeneral(e, calls) ==
    LET g == ProbeChain(e, GeneralOrder, 1, calls)
    IN  IF g.exc # "none" \/ g.ret # "none" THEN g
        ELSE SelectFromEnvironment(e, g.calls)

SelectProbing(e) ==
    IF _is_hpc_environment(e)
    THEN LET h == ProbeChain(e, HpcOrder, 1, <<>>)
         IN  IF h.exc # "none" \/ h.ret # "none" THEN h
             ELSE SelectGeneral(e, h.calls)
    ELSE SelectGeneral(e, <<>>)

\* _detect_best_runtime that probes first and consults the hint only when
\* probing found nothing.
_detect_best_runtime_ProbeFirst(e) ==
    LET p == SelectProbing(e)
    IN  IF p.exc = "none" THEN p
        ELSE IF e.hint # "" /\ e.hint \in DOMAIN runtime_map
        THEN Returned(runtime_map[e.hint], p.calls)
        ELSE p

_detect_best_runtime(e) ==
    IF e.hint # "" /\ e.hint \in DOMAIN runtime_map
    THEN Returned(runtime_map[e.hint], <<>>)
    ELSE SelectProbing(e)

----------------------------------------------------------------------------
(* Image references and ContainerManager._normalize_image_name.            *)

Separators == {"/", ":"}

Words == {"docker.io", "quay.io", "img"}

ImageTokens == Separators \cup Words

\* Longest image reference, in tokens.
MaxTokens == 5

\* Longest chain of normalisations applied to one reference.
MaxNormCalls == 2

RefsUpTo(n) == UNION {[1..k -> ImageTokens] : k \in 0..n}

WellFormed(s) == \A i \in 1..(Len(s) - 1) : ~(s[i] \in Words /\ s[i + 1] \in Words)

MyorgImage == <<"myorg", "/", "myimage", ":", "latest">>

QuayImage == <<"quay.io", "/", "org", "/", "img", ":", "1">>

LocalhostImage == <<"localhost", ":", "5000", "/", "img">>

ImageRefs ==
    {s \in RefsUpTo(MaxTokens) : WellFormed(s)}
    \cup {MyorgImage, QuayImage, LocalhostImage}

DockerIoPrefix == <<"docker.io", "/">>

\* str.startswith
StartsWith(s, prefix) ==
    /\ Len(s) >= Len(prefix)
    /\ SubSeq(s, 1, Len(prefix)) = prefix

\* `"/" in image_name`
ContainsSlash(s) == \E i \in 1..Len(s) : s[i] = "/"

\* AddDockerIoPrefix without the startswith test.
AddDockerIoPrefix_Always(image_name) ==
    IF ContainsSlash(image_name)
    THEN DockerIoPrefix \o image_name
    ELSE image_name

\* Lines 381-386: the prefixing itself, once normalisation is wanted.
AddDockerIoPrefix(image_name) ==
    IF ~StartsWith(image_name, DockerIoPrefix) /\ ContainsSlash(image_name)
    THEN DockerIoPrefix \o image_name
    ELSE image_name

\* Lines 359-379: for a docker runtime, ask `docker buildx version`
\* (timeout=5, no check) whether docker is a podman wrapper.
DockerNeedsNormalization(e) ==
    LET w == <<WhichCall(DOCKER)>>
        b == w \o <<RunCall(DOCKER, <<W("buildx"), W("version")>>)>>
    IN  IF ~e.docker.which THEN Returned(FALSE, w)
        ELSE CASE e.docker.buildx = "sig" -> Returned(FALSE, b)
               [] e.docker.buildx \in {"nosig", "nonzero"} -> Returned(TRUE, b)
               [] e.docker.buildx = "fnf" ->
                      Returned(e.bin[PODMAN] # "absent", b \o <<WhichCall(PODMAN)>>)
               [] e.docker.buildx = "oserror" -> Raised("OSError", b)

needs_normalization(e, rt) ==
    CASE rt = PODMAN -> Returned(TRUE, <<>>)
      [] rt = DOCKER -> DockerNeedsNormalization(e)
      [] OTHER       -> Returned(FALSE, <<>>)

_normalize_image_name(e, rt, image_name) ==
    LET n == needs_normalization(e, rt)
    IN  IF n.exc # "none" THEN [calls |-> n.calls, exc |-> n.exc, ret |-> image_name]
        ELSE IF n.ret THEN Returned(AddDockerIoPrefix(image_name), n.calls)
        ELSE Returned(image_name, n.calls)

----------------------------------------------------------------------------
(* Initial values shared by every specification.                           *)

NoSelection == [calls |-> <<>>, exc |-> "unset", ret |-> "none"]

NoProbe == [runtime |-> "none", calls |-> <<>>, exc |-> "unset", ret |-> FALSE]

NoOp == [calls |-> <<>>, exc |-> "unset", ret |-> "none", op |-> "none"]

NoArgs == [op |-> "none"]

\* No watcher thread has been started and the container does not exist yet.
NoMonitor == [pc |-> "idle", container |-> "absent", signal |-> FALSE, saves |-> 0,
              polled |-> "none", caught |-> "none", pending |-> FALSE]

Fresh ==
    /\ pc = "new"
    /\ runtime = "none"
    /\ sif_dir = "none"
    /\ sel = NoSelection
    /\ selectRuns = 0
    /\ lastProbe = NoProbe
    /\ lastOp = NoOp
    /\ opCount = 0
    /\ img = <<>>
    /\ norm = <<>>
    /\ lastArgs = NoArgs
    /\ mon = NoMonitor
    /\ cache = {}

----------------------------------------------------------------------------
(* Selection and probing on their own (SpecSelect).                        *)

MarkerSets == {m \in SUBSET MarkerVars : Cardinality(m) <= MaxMarkers}

\* No hint, every behaviour of the four binaries.
ProbeEnvs ==
    {[BaseEnv EXCEPT !.hostname = h, !.bin = b, !.docker = d] :
        h \in {"unset", "plain"},
        b \in [SimpleRuntimes -> SimpleOutcomes],
        d \in DockerBinaries}

\* Every hint value, over binaries that are absent, working or a podman shim.
HintEnvs ==
    {[BaseEnv EXCEPT !.hint = x, !.sched = c, !.bin = b, !.docker = d] :
        x \in HintValues,
        c \in BOOLEAN,
        b \in [SimpleRuntimes -> {"absent", "ok", "oserror"}],
        d \in {DockerAbsent, DockerWorking, [DockerWorking EXCEPT !.v1 = "podman"]}}

\* No usable binary, every combination of markers.
MarkerEnvs ==
    {[BaseEnv EXCEPT !.hint = x, !.sched = c, !.hostname = h, !.markers = m,
                     !.dockerenv = de, !.cgroup = cg, !.workspace = ws,
                     !.homeVenvoy = hv, !.bin = b] :
        x \in {"", "bogus"}, c \in BOOLEAN, h \in Hostnames, m \in MarkerSets,
        de \in BOOLEAN, cg \in CgroupContents, ws \in BOOLEAN, hv \in BOOLEAN,
        b \in {[r \in SimpleRuntimes |-> "absent"], [r \in SimpleRuntimes |-> "nonzero"]}}

SelectEnvs == ProbeEnvs \cup HintEnvs \cup MarkerEnvs

InitSelect ==
    /\ env \in SelectEnvs
    /\ Fresh

\* A call of _detect_best_runtime.
DetectBestRuntime ==
    /\ pc = "new"
    /\ sel' = _detect_best_runtime(env)
    /\ selectRuns' = selectRuns + 1
    /\ pc' = "selected"
    /\ UNCHANGED <<env, runtime, sif_dir, lastProbe, lastOp, opCount, img, norm, lastArgs, mon,
                   cache>>

\* A call of _check_runtime_available(r).
CheckRuntimeAvailable(r) ==
    /\ pc = "new"
    /\ lastProbe' = [runtime |-> r, calls |-> _check_runtime_available(env, r).calls,
                     exc |-> _check_runtime_available(env, r).exc,
                     ret |-> _check_runtime_available(env, r).ret]
    /\ pc' = "probed"
    /\ UNCHANGED <<env, runtime, sif_dir, sel, selectRuns, lastOp, opCount, img, norm,
                   lastArgs, mon, cache>>

NextSelect ==
    \/ DetectBestRuntime
    \/ \E r \in ContainerRuntime : CheckRuntimeAvailable(r)

SpecSelect == InitSelect /\ [][NextSelect]_vars

----------------------------------------------------------------------------
(* Normalisation on its own (SpecNorm): a manager whose runtime is rt      *)
(* normalises a reference, then normalises the result again.               *)

NormEnvs ==
    {[BaseEnv EXCEPT !.bin[PODMAN] = p, !.docker = d] :
        p \in {"absent", "ok"},
        d \in {DockerAbsent} \cup
              {[DockerWorking EXCEPT !.buildx = b] : b \in DockerBuildxOutcomes}}

InitNorm ==
    /\ \/ env \in NormEnvs /\ runtime = DOCKER
       \/ env = BaseEnv /\ runtime \in SimpleRuntimes
    /\ img \in ImageRefs
    /\ pc = "ready"
    /\ sif_dir = "none"
    /\ sel = NoSelection
    /\ selectRuns = 0
    /\ lastProbe = NoProbe
    /\ lastOp = NoOp
    /\ opCount = 0
    /\ norm = <<>>
    /\ lastArgs = NoArgs
    /\ mon = NoMonitor
    /\ cache = {}

NormalizeImageName ==
    /\ pc = "ready"
    /\ Len(norm) < MaxNormCalls
    /\ LET arg == IF norm = <<>> THEN img ELSE norm[Len(norm)].ret
       IN  norm' = Append(norm, _normalize_image_name(env, runtime, arg))
    /\ UNCHANGED <<env, pc, runtime, sif_dir, sel, selectRuns, lastProbe, lastOp,
                   opCount, img, lastArgs, mon, cache>>

NextNorm == NormalizeImageName

SpecNorm == InitNorm /\ [][NextNorm]_vars

----------------------------------------------------------------------------
(* SIF cache directory: ContainerManager.__init__, lines 37-63.            *)

TmpSifDir == "/tmp/.venvoy/si"

HomeSifDir == "~/.venvoy/si"

\* candidate_dirs with the home directory added whether writable or not.
candidate_dirs_HomeAlways(e) ==
    (IF _is_inside_container(e) THEN <<TmpSifDir>> ELSE <<>>)
    \o <<HomeSifDir>>
    \o <<TmpSifDir>>

candidate_dirs(e) ==
    (IF _is_inside_container(e) THEN <<TmpSifDir>> ELSE <<>>)
    \o (IF e.homeWritable THEN <<HomeSifDir>> ELSE <<>>)
    \o <<TmpSifDir>>

\* candidate.mkdir(parents=True, exist_ok=True) succeeds.
MkdirOk(e, dir) == IF dir = HomeSifDir THEN e.mkdirHome ELSE e.mkdirTmp

\* ChooseSifDir giving up when the first candidate cannot be created.
ChooseSifDir_FirstOnly(e) ==
    IF MkdirOk(e, candidate_dirs(e)[1]) THEN Returned(candidate_dirs(e)[1], <<>>)
    ELSE RaisedNoRuntime("PermissionError", <<>>)

\* The first candidate that can be created; after the loop the last resort
\* is /tmp once more, and its failure raises PermissionError.
ChooseSifDir(e) ==
    LET c == candidate_dirs(e)
        ok == {i \in DOMAIN c : MkdirOk(e, c[i])}
    IN  IF ok # {} THEN Returned(c[CHOOSE i \in ok : \A j \in ok : i <= j], <<>>)
        ELSE IF MkdirOk(e, TmpSifDir) THEN Returned(TmpSifDir, <<>>)
        ELSE RaisedNoRuntime("PermissionError", <<>>)

----------------------------------------------------------------------------
(* Command builders.                                                       *)

\* Parameters of run_container.  command is a sequence of words (<<>> is
\* None); volumes, ports and environment are dicts in insertion order.
OpImages == {<<"img">>, <<"org", "/", "img", ":", "1">>}

SimpleVolume == [host |-> "/data", nested |-> FALSE, bind |-> "/workspace/data", mode |-> "rw"]

NestedVolume == [host |-> "/data", nested |-> TRUE, bind |-> "/workspace/data", mode |-> "ro"]

BareRun ==
    [image |-> <<"img">>, name |-> "c1", command |-> <<>>, volumes |-> <<>>,
     ports |-> <<>>, environment |-> <<>>, detach |-> FALSE, working_dir |-> ""]

RunParamSets ==
    {[BareRun EXCEPT !.image = i, !.detach = d] : i \in OpImages, d \in BOOLEAN}
    \cup {[BareRun EXCEPT !.command = c, !.volumes = <<v>>, !.ports = <<<<"8888", "8888">>>>,
                          !.environment = <<<<"K", "V">>>>, !.working_dir = "/workspace"] :
              c \in {<<"sleep", "infinity">>, <<"a", "&&", "b">>},
              v \in {SimpleVolume, NestedVolume}}
    \cup {[BareRun EXCEPT !.volumes =
               <<NestedVolume,
                 [host |-> "/home", nested |-> FALSE, bind |-> "/host-home", mode |-> "rw"],
                 [host |-> "/src", nested |-> TRUE, bind |-> "/workspace", mode |-> "rw"]>>]}

\* volumes_for_subprocess that takes the mode of a nested value for its path.
volumes_for_subprocess_ModeForBind(volumes) ==
    [i \in DOMAIN volumes |->
        <<volumes[i].host, IF volumes[i].nested THEN volumes[i].mode ELSE volumes[i].bind>>]

\* Lines 454-464: the simple {host: container} map for subprocess builders.
volumes_for_subprocess(volumes) ==
    [i \in DOMAIN volumes |-> <<volumes[i].host, volumes[i].bind>>]

PairFlags(flag, sep, pairs) ==
    LET RECURSIVE F(_)
        F(i) == IF i > Len(pairs) THEN <<>>
                ELSE <<W(flag), <<pairs[i][1], sep, pairs[i][2]>>>> \o F(i + 1)
    IN  F(1)

\* Words of a command that hold a shell metacharacter.
ShellMetaWords == {"&&", "||", ";", "|", ">", "<", "a|b"}

\* HasShellMeta that finds a metacharacter only where it is a word of its own.
HasShellMeta_WholeWords(command) ==
    \E i \in DOMAIN command : command[i] \in {"&&", "||", ";", "|", ">", "<"}

HasShellMeta(command) == \E i \in DOMAIN command : command[i] \in ShellMetaWords

\* _build_docker_run_command with the port binds added before the volume binds.
_build_docker_run_command_PortsFirst(image, name, command, volumes, ports, environment, detach, working_dir) ==
    <<W(DOCKER), W("run")>>
    \o (IF name # "" THEN <<W("--name"), W(name)>> ELSE <<>>)
    \o (IF detach THEN <<W("-d")>> ELSE <<>>)
    \o PairFlags("-p", ":", ports)
    \o PairFlags("-v", ":", volumes)
    \o PairFlags("-e", "=", environment)
    \o (IF working_dir # "" THEN <<W("-w"), W(working_dir)>> ELSE <<>>)
    \o <<image>>
    \o (IF command # <<>> THEN <<W("sh"), W("-c"), command>> ELSE <<>>)

_build_docker_run_command(image, name, command, volumes, ports, environment, detach, working_dir) ==
    <<W(DOCKER), W("run")>>
    \o (IF name # "" THEN <<W("--name"), W(name)>> ELSE <<>>)
    \o (IF detach THEN <<W("-d")>> ELSE <<>>)
    \o PairFlags("-v", ":", volumes)
    \o PairFlags("-p", ":", ports)
    \o PairFlags("-e", "=", environment)
    \o (IF working_dir # "" THEN <<W("-w"), W(working_dir)>> ELSE <<>>)
    \o <<image>>
    \o (IF command # <<>> THEN <<W("sh"), W("-c"), command>> ELSE <<>>)

\* _build_podman_run_command with --userns=keep-id added after the volumes.
_build_podman_run_command_FlagAfterVolumes(image, name, command, volumes, ports, environment, detach, working_dir) ==
    <<W(PODMAN), W("run")>>
    \o (IF name # "" THEN <<W("--name"), W(name)>> ELSE <<>>)
    \o (IF detach THEN <<W("-d")>> ELSE <<>>)
    \o PairFlags("-v", ":", volumes)
    \o <<W("--userns=keep-id")>>
    \o PairFlags("-p", ":", ports)
    \o PairFlags("-e", "=", environment)
    \o (IF working_dir # "" THEN <<W("-w"), W(working_dir)>> ELSE <<>>)
    \o <<image>>
    \o (IF command = <<>> THEN <<>>
        ELSE IF Len(command) > 1 /\ ~HasShellMeta(command)
        THEN [i \in DOMAIN command |-> W(command[i])]
        ELSE <<W("sh"), W("-c"), command>>)

_build_podman_run_command(image, name, command, volumes, ports, environment, detach, working_dir) ==
    <<W(PODMAN), W("run")>>
    \o (IF name # "" THEN <<W("--name"), W(name)>> ELSE <<>>)
    \o (IF detach THEN <<W("-d")>> ELSE <<>>)
    \o <<W("--userns=keep-id")>>
    \o PairFlags("-v", ":", volumes)
    \o PairFlags("-p", ":", ports)
    \o PairFlags("-e", "=", environment)
    \o (IF working_dir # "" THEN <<W("-w"), W(working_dir)>> ELSE <<>>)
    \o <<image>>
    \o (IF command = <<>> THEN <<>>
        ELSE IF Len(command) > 1 /\ ~HasShellMeta(command)
        THEN [i \in DOMAIN command |-> W(command[i])]
        ELSE <<W("sh"), W("-c"), command>>)

\* _build_run_command with the Podman branch calling the Docker builder.
_build_run_command_Mixed(rt, image, name, command, volumes, ports, environment, detach, working_dir) ==
    CASE rt \in {DOCKER, PODMAN} ->
             Returned(_build_docker_run_command(image, name, command, volumes, ports,
                                                environment, detach, working_dir), <<>>)
      [] OTHER -> Raised("TypeError", <<>>)

\* The dispatch on self.runtime.  The Apptainer and Singularity builders
\* take no working_dir, so passing eight arguments to them is a TypeError.
_build_run_command(rt, image, name, command, volumes, ports, environment, detach, working_dir) ==
    CASE rt = DOCKER ->
             Returned(_build_docker_run_command(image, name, command, volumes, ports,
                                                environment, detach, working_dir), <<>>)
      [] rt = PODMAN ->
             Returned(_build_podman_run_command(image, name, command, volumes, ports,
                                                environment, detach, working_dir), <<>>)
      [] rt \in {APPTAINER, SINGULARITY} -> Raised("TypeError", <<>>)

----------------------------------------------------------------------------
(* Manager operations.  Each returns what the caller sees: the exception   *)
(* that left the call ("none" if it returned), the returned value, and the *)
(* PATH lookups and subprocesses it made.                                  *)

OpReturned(op, v, calls) == [calls |-> calls, exc |-> "none", ret |-> v, op |-> op]

OpRaised(op, x, calls) == [calls |-> calls, exc |-> x, ret |-> "none", op |-> op]

\* An exception whose message the caller can read: ret is the part of the
\* message that varies.
OpRaisedMsg(op, x, msg, calls) == [calls |-> calls, exc |-> x, ret |-> msg, op |-> op]

\* Outcome of a subprocess an operation spawns.
RunOutcomes == {"ok", "nonzero", "fnf", "oserror"}

OnPath(e, rt) == IF rt = DOCKER THEN e.docker.which ELSE e.bin[rt] # "absent"

\* SifName with only the "/" replaced.
SifName_KeepColon(image) ==
    [i \in DOMAIN image |-> IF image[i] = "/" THEN "-" ELSE image[i]] \o <<".si">>

\* image.replace("/", "-").replace(":", "-") + ".si"
SifName(image) ==
    [i \in DOMAIN image |-> IF image[i] \in {"/", ":"} THEN "-" ELSE image[i]] \o <<".si">>

\* SifPath that names one file whatever the reference.
SifPath_OneFile(dir, image) == <<dir, "/", "image.si">>

SifPath(dir, image) == <<dir, "/">> \o SifName(image)

\* pull_image with a second attempt after a pull that exited non-zero.
pull_image_Retry(e, rt, sd, image_name, out) ==
    LET n == _normalize_image_name(e, rt, image_name)
        args == IF rt \in {APPTAINER, SINGULARITY}
                THEN <<W("pull"), SifPath(sd, image_name), <<"docker://">> \o n.ret>>
                ELSE <<W("pull"), n.ret>>
        w == n.calls \o <<WhichCall(rt)>>
        c == w \o <<RunCall(rt, args)>>
    IN  IF n.exc # "none" THEN OpRaised("pull_image", n.exc, n.calls)
        ELSE IF ~OnPath(e, rt) THEN OpReturned("pull_image", "False", w)
        ELSE CASE out = "ok" -> OpReturned("pull_image", "True", c)
               [] out = "nonzero" ->
                     OpReturned("pull_image", "False", c \o <<RunCall(rt, args)>>)
               [] out = "fnf" -> OpReturned("pull_image", "False", c)
               [] out = "oserror" -> OpRaised("pull_image", "OSError", c)

\* pull_image, lines 388-427.
pull_image(e, rt, sd, image_name, out) ==
    LET n == _normalize_image_name(e, rt, image_name)
        args == IF rt \in {APPTAINER, SINGULARITY}
                THEN <<W("pull"), SifPath(sd, image_name), <<"docker://">> \o n.ret>>
                ELSE <<W("pull"), n.ret>>
        w == n.calls \o <<WhichCall(rt)>>
        c == w \o <<RunCall(rt, args)>>
    IN  IF n.exc # "none" THEN OpRaised("pull_image", n.exc, n.calls)
        ELSE IF ~OnPath(e, rt) THEN OpReturned("pull_image", "False", w)
        ELSE CASE out = "ok" -> OpReturned("pull_image", "True", c)
               [] out \in {"nonzero", "fnf"} -> OpReturned("pull_image", "False", c)
               [] out = "oserror" -> OpRaised("pull_image", "OSError", c)

\* Path.exists() on a file of the SIF cache.
ExistsCall(path) == [bin |-> "", kind |-> "exists", args |-> <<path>>]

\* _build_apptainer_run_command, lines 691-725.  x.exists says whether the
\* SIF file is in the cache; if not, the image is pulled first and the
\* result of the pull is ignored.
_build_apptainer_run_command(e, rt, sd, image, name, command, volumes, ports, environment, detach, x) ==
    LET image_path == SifPath(sd, image)
        pull == pull_image(e, rt, sd, image, x.pull)
        calls == IF x.exists THEN <<ExistsCall(image_path)>>
                 ELSE <<ExistsCall(image_path)>> \o pull.calls
        cmd == <<W(APPTAINER), W("run")>>
               \o PairFlags("--bind", ":", volumes)
               \o PairFlags("--env", "=", environment)
               \o <<image_path>>
               \o (IF command # <<>> THEN <<W("sh"), W("-c"), command>> ELSE <<>>)
    IN  IF ~x.exists /\ pull.exc # "none" THEN Raised(pull.exc, calls)
        ELSE Returned(cmd, calls)

\* _build_singularity_run_command, lines 727-759.
_build_singularity_run_command(image, name, command, volumes, ports, environment, detach) ==
    <<W(SINGULARITY), W("exec")>>
    \o PairFlags("--bind", ":", volumes)
    \o PairFlags("--env", "=", environment)
    \o <<<<"docker://">> \o image>>
    \o (IF command # <<>> THEN <<W("/bin/bash"), W("-c"), command>>
        ELSE <<W("/usr/local/bin/venvoy-entrypoint")>>)

\* run_container lines 470-497: is the docker binary a podman wrapper?
\* TimeoutExpired and FileNotFoundError end the checks and keep what was
\* found so far.
DockerWrapperCheck(e) ==
    LET w == <<WhichCall(DOCKER)>>
        v == w \o <<RunCall(DOCKER, <<W("--version")>>)>>
        i == v \o <<RunCall(DOCKER, <<W("info"), W("--format"), W("{{.Host.Os}}")>>)>>
        b == i \o <<RunCall(DOCKER, <<W("buildx"), W("version")>>)>>
        shim == e.docker.v1 = "podman"
    IN  IF ~e.docker.which THEN Returned(FALSE, w)
        ELSE CASE e.docker.v1 = "oserror" -> Raised("OSError", v)
               [] e.docker.v1 \in {"timeout", "fnf"} -> Returned(FALSE, v)
               [] OTHER ->
             CASE e.docker.info = "oserror" -> Raised("OSError", i)
               [] e.docker.info = "fnf" -> Returned(shim, i)
               [] OTHER ->
             CASE e.docker.buildx = "oserror" -> Raised("OSError", b)
               [] e.docker.buildx = "fnf" -> Returned(shim, b)
               [] e.docker.buildx = "nonzero" -> Returned(TRUE, b)
               [] OTHER -> Returned(shim, b)

\* What the outside world does during one run_container call.
DefaultScenario ==
    [sdk |-> "importerror", run |-> "ok", ps |-> "up", psa |-> "none", logs |-> "ok"]

RunScenarios ==
    {[DefaultScenario EXCEPT !.sdk = x] : x \in {"ok", "error"}}
    \cup {[DefaultScenario EXCEPT !.run = x] : x \in RunOutcomes}
    \cup {[DefaultScenario EXCEPT !.ps = x] : x \in {"up", "running", "lower_up", "exited", "garbled"}}
    \cup {[DefaultScenario EXCEPT !.ps = "none", !.psa = x] : x \in {"none", "listed", "garbled"}}
    \cup {[DefaultScenario EXCEPT !.ps = "exited", !.logs = "nonzero"],
          [DefaultScenario EXCEPT !.ps = "none", !.psa = "listed", !.logs = "nonzero"]}

PsArgs(name, all) ==
    <<W("ps")>> \o (IF all THEN <<W("-a")>> ELSE <<>>)
    \o <<W("--filter"), <<"name=", name>>, W("--format"), W("{{.ID}}|{{.Status}}")>>

\* What `podman logs <id>` printed, and what the message holds without it.
LogText == "container log text"

\* Lines 571-573 and 590-592: the logs that go into the error message.
ContainerLogs(o) == IF o.logs = "ok" THEN LogText ELSE "Unable to retrieve logs"

\* Lines 552-600: after a detached podman launch, look the container up.
VerifyDetached(e, name, o, calls) ==
    LET w == calls \o <<WhichCall(PODMAN)>>
        ps == w \o <<RunCall(PODMAN, PsArgs(name, FALSE))>>
        psa == ps \o <<RunCall(PODMAN, PsArgs(name, TRUE))>>
        logs(c) == c \o <<RunCall(PODMAN, <<W("logs"), W("id")>>)>>
    IN  IF e.bin[PODMAN] = "absent" THEN OpReturned("run_container", "handle", w)
        ELSE CASE o.ps \in {"up", "running", "garbled"} ->
                      OpReturned("run_container", "handle", ps)
               [] o.ps \in {"lower_up", "exited"} ->
                      OpRaisedMsg("run_container", "RuntimeError", ContainerLogs(o), logs(ps))
               [] o.ps = "none" ->
                      CASE o.psa = "listed" ->
                               OpRaisedMsg("run_container", "RuntimeError", ContainerLogs(o),
                                           logs(psa))
                        [] o.psa = "garbled" -> OpReturned("run_container", "handle", psa)
                        [] o.psa = "none" ->
                               OpRaisedMsg("run_container", "RuntimeError",
                                           "failed to start - not found in container list", psa)

\* subprocess.run(cmd, check=True): only CalledProcessError is handled.
RunBuiltCommand(e, rt, p, o, cmd, calls) ==
    LET c == calls \o <<RunCall(cmd[1][1], Tail(cmd))>>
    IN  CASE o.run = "nonzero" -> OpReturned("run_container", "False", c)
          [] o.run = "fnf" -> OpRaised("run_container", "FileNotFoundError", c)
          [] o.run = "oserror" -> OpRaised("run_container", "OSError", c)
          [] o.run = "ok" ->
                 IF rt = PODMAN /\ p.detach THEN VerifyDetached(e, p.name, o, c)
                 ELSE OpReturned("run_container", "handle", c)

\* The Docker client library path, lines 500-523.
RunWithDockerClient(e, rt, p, o, image, calls) ==
    LET n2 == _normalize_image_name(e, rt, image)
        c == calls \o n2.calls
    IN  IF n2.exc # "none" THEN OpRaised("run_container", n2.exc, c)
        ELSE CASE o.sdk = "ok" ->
                      OpReturned("run_container", "container",
                                 c \o <<[bin |-> DOCKER, kind |-> "client",
                                         args |-> <<n2.ret>>, volumes |-> p.volumes]>>)
               [] o.sdk = "error" -> OpRaised("run_container", "DockerException", c)

\* run_container, lines 429-616.
run_container(e, rt, p, o) ==
    LET n == _normalize_image_name(e, rt, p.image)
        b == _build_run_command(rt, n.ret, p.name, p.command,
                                volumes_for_subprocess(p.volumes), p.ports,
                                p.environment, p.detach, p.working_dir)
        k == DockerWrapperCheck(e)
    IN  IF n.exc # "none" THEN OpRaised("run_container", n.exc, n.calls)
        ELSE IF rt = DOCKER
        THEN IF k.exc # "none" THEN OpRaised("run_container", k.exc, n.calls \o k.calls)
             ELSE IF ~k.ret /\ o.sdk # "importerror"
             THEN RunWithDockerClient(e, rt, p, o, n.ret, n.calls \o k.calls)
             ELSE IF b.exc # "none" THEN OpRaised("run_container", b.exc, n.calls \o k.calls)
             ELSE RunBuiltCommand(e, rt, p, o, b.ret, n.calls \o k.calls)
        ELSE IF b.exc # "none" THEN OpRaised("run_container", b.exc, n.calls)
        ELSE RunBuiltCommand(e, rt, p, o, b.ret, n.calls)

\* stop_container, lines 815-827.
stop_container(rt, name, out) ==
    LET c == <<RunCall(rt, <<W("stop"), W(name)>>)>>
    IN  IF rt \notin {DOCKER, PODMAN} THEN OpReturned("stop_container", "True", <<>>)
        ELSE CASE out = "ok" -> OpReturned("stop_container", "True", c)
               [] out = "nonzero" -> OpReturned("stop_container", "False", c)
               [] out = "fnf" -> OpRaised("stop_container", "FileNotFoundError", c)
               [] out = "oserror" -> OpRaised("stop_container", "OSError", c)

\* A field of a line of `ps` output: its text without surrounding
\* whitespace (<<>> if there is none) and whether whitespace surrounds it.
Field(pad, text) == [text |-> text, lpad |-> pad, rpad |-> pad]

\* str.strip() of a field
Strip(f) == f.text

\* `not line.strip()`: a line is the sequence of fields "|" splits it into,
\* and only a line of one field can be all whitespace.
IsBlank(line) == Len(line) = 1 /\ Strip(line[1]) = <<>>

\* output.strip().split("\n"): blank lines at both ends go, and so does the
\* whitespace before the first and after the last field that remain
\* (lstrip and rstrip of those fields).
StripOutput(output) ==
    LET lstrip(f) == IF f.text = <<>> THEN Field(FALSE, <<>>) ELSE [f EXCEPT !.lpad = FALSE]
        rstrip(f) == IF f.text = <<>> THEN Field(FALSE, <<>>) ELSE [f EXCEPT !.rpad = FALSE]
        nb == {i \in DOMAIN output : ~IsBlank(output[i])}
        lo == CHOOSE i \in nb : \A j \in nb : i <= j
        hi == CHOOSE i \in nb : \A j \in nb : j <= i
        kept == SubSeq(output, lo, hi)
        l(i, j, f) == IF i = 1 /\ j = 1 THEN lstrip(f) ELSE f
        r(i, j, f) == IF i = Len(kept) /\ j = Len(kept[i]) THEN rstrip(f) ELSE f
    IN  IF nb = {} THEN <<<<Field(FALSE, <<>>)>>>>
        ELSE [i \in DOMAIN kept |->
                 [j \in DOMAIN kept[i] |-> r(i, j, l(i, j, kept[i][j]))]]

\* Lines 882-890: the keys of a container dict and the part each one holds.
ContainerKeys == {"id", "image", "command", "created", "status", "ports", "name"}

PartOf(key) ==
    CASE key = "id" -> 1
      [] key = "image" -> 2
      [] key = "command" -> 3
      [] key = "created" -> 4
      [] key = "status" -> 5
      [] key = "ports" -> 6
      [] key = "name" -> 7

\* Container with the id and image parts exchanged.
Container_ImageFirst(parts) ==
    [key \in ContainerKeys |->
        Strip(parts[IF PartOf(key) = 1 THEN 2 ELSE IF PartOf(key) = 2 THEN 1 ELSE PartOf(key)])]

\* Lines 882-890: the dict made of the first seven parts, stripped.
Container(parts) == [key \in ContainerKeys |-> Strip(parts[PartOf(key)])]

\* _parse_docker_ps_output, lines 868-892.
_parse_docker_ps_output(output) ==
    LET lines == StripOutput(output)
        RECURSIVE P(_)
        P(i) == IF i > Len(lines) THEN <<>>
                ELSE IF IsBlank(lines[i]) THEN P(i + 1)
                ELSE IF Len(lines[i]) >= 7 THEN <<Container(lines[i])>> \o P(i + 1)
                ELSE P(i + 1)
    IN  IF lines = <<>> \/ IsBlank(lines[1]) THEN <<>> ELSE P(1)

ps_format == "{{.ID}}|{{.Image}}|{{.Command}}|{{.Created}}|{{.Status}}|{{.Ports}}|{{.Names}}"

\* list_containers, lines 829-866.
list_containers(e, rt, all_containers, out) ==
    LET w == <<WhichCall(rt)>>
        args == <<W("ps")>> \o (IF all_containers THEN <<W("-a")>> ELSE <<>>)
                \o <<W("--format"), W(ps_format)>>
        c == w \o <<RunCall(rt, args)>>
    IN  IF rt \notin {DOCKER, PODMAN} THEN OpReturned("list_containers", "empty", <<>>)
        ELSE IF ~OnPath(e, rt) THEN OpReturned("list_containers", "empty", w)
        ELSE CASE out = "ok" -> OpReturned("list_containers", "parsed", c)
               [] out \in {"nonzero", "fnf"} -> OpReturned("list_containers", "empty", c)
               [] out = "oserror" -> OpRaised("list_containers", "OSError", c)

\* build_image, lines 894-942.  conv says whether the Dockerfile could be
\* read and the definition file written.
build_image(rt, dockerfile_path, tag, context_path, conv, out) ==
    LET args == IF rt \in {DOCKER, PODMAN}
                THEN <<W("build"), W("-t"), W(tag), W("-"), W(dockerfile_path), W(context_path)>>
                ELSE <<W("build"), <<tag, ".sif">>, <<context_path, "/", "Singularity.de">>>>
        c == <<RunCall(rt, args)>>
    IN  IF rt \in {APPTAINER, SINGULARITY} /\ ~conv
        THEN OpRaised("build_image", "OSError", <<>>)
        ELSE CASE out = "ok" -> OpReturned("build_image", "True", c)
               [] out = "nonzero" -> OpReturned("build_image", "False", c)
               [] out = "fnf" -> OpRaised("build_image", "FileNotFoundError", c)
               [] out = "oserror" -> OpRaised("build_image", "OSError", c)

\* get_runtime_info, lines 295-347: the selected runtime's name, with a
\* version that is "Host: <hint>", the version output, or "Unknown".
get_runtime_info(e, rt, out) ==
    LET c == <<RunCall(rt, <<W("--version")>>)>>
    IN  IF e.hint # "" THEN OpReturned("get_runtime_info", <<rt, "Host", e.hint>>, <<>>)
        ELSE CASE out = "ok" -> OpReturned("get_runtime_info", <<rt, "version", "">>, c)
               [] out = "nonzero" -> OpReturned("get_runtime_info", <<rt, "Unknown", "">>, c)
               [] out = "fnf" -> OpRaised("get_runtime_info", "FileNotFoundError", c)
               [] out = "oserror" -> OpRaised("get_runtime_info", "OSError", c)

\* VenvoyEnvironment._ensure_image_available, core.py lines 250-348.
\* x.info, x.inspect and x.pull are the outcomes of the `--version`,
\* `image inspect` and pull subprocesses; x.exists says whether the SIF
\* file is in the cache.
_ensure_image_available(e, rt, sd, image_name, x) ==
    LET op == "_ensure_image_available"
        info == get_runtime_info(e, rt, x.info)
        w == info.calls \o (IF e.hint # "" THEN <<WhichCall(rt)>> ELSE <<>>)
        sif_file == SifPath(sd, image_name)
        inspected == IF rt = PODMAN THEN AddDockerIoPrefix(image_name) ELSE image_name
        pull(c) ==
            LET pl == pull_image(e, rt, sd, image_name, x.pull)
            IN  IF pl.exc # "none" THEN OpRaised(op, pl.exc, c \o pl.calls)
                ELSE IF pl.ret = "True" THEN OpReturned(op, "None", c \o pl.calls)
                ELSE OpRaisedMsg(op, "RuntimeError", "Failed to download environment",
                                 c \o pl.calls)
        c1 == w \o <<ExistsCall(sif_file)>>
        c2 == w \o <<WhichCall(rt)>>
        c3 == c2 \o <<RunCall(rt, <<W("image"), W("inspect"), inspected>>)>>
    IN  IF info.exc # "none" THEN OpRaised(op, info.exc, info.calls)
        ELSE IF e.hint # "" /\ ~OnPath(e, rt) THEN OpReturned(op, "None", w)
        ELSE IF rt \in {APPTAINER, SINGULARITY}
        THEN IF x.exists THEN OpReturned(op, "None", c1) ELSE pull(c1)
        ELSE IF ~OnPath(e, rt) THEN pull(c2)
        ELSE CASE x.inspect = "ok" -> OpReturned(op, "None", c3)
               [] x.inspect \in {"nonzero", "fnf"} -> pull(c3)
               [] x.inspect = "oserror" -> OpRaised(op, "OSError", c3)

----------------------------------------------------------------------------
(* The manager's life cycle (Spec).                                        *)

\* Most operations performed on one manager.
MaxOps == 2

\* Runtime set-ups: a recognised hint with no binary at all, or no hint and
\* at most one working binary.
OneBinary(r) == [x \in SimpleRuntimes |-> IF x = r THEN "ok" ELSE "absent"]

RuntimeSetups ==
    {[BaseEnv EXCEPT !.hint = h] : h \in ContainerRuntime}
    \cup {[BaseEnv EXCEPT !.bin = OneBinary(r)] : r \in SimpleRuntimes}
    \cup {BaseEnv, [BaseEnv EXCEPT !.docker = DockerWorking]}

ManagerEnvs ==
    {[s EXCEPT !.dockerenv = de, !.homeWritable = hw, !.mkdirHome = mh, !.mkdirTmp = mt] :
        s \in RuntimeSetups, de \in BOOLEAN, hw \in BOOLEAN, mh \in BOOLEAN, mt \in BOOLEAN}

Init ==
    /\ env \in ManagerEnvs
    /\ Fresh

\* ContainerManager(): selection, then the SIF cache directory.
Construct ==
    /\ pc = "new"
    /\ sel' = _detect_best_runtime(env)
    /\ selectRuns' = selectRuns + 1
    /\ IF sel'.exc # "none"
       THEN pc' = "failed" /\ UNCHANGED <<runtime, sif_dir, cache>>
       ELSE IF ChooseSifDir(env).exc # "none"
       THEN pc' = "failed" /\ UNCHANGED <<runtime, sif_dir, cache>>
       ELSE /\ pc' = "ready"
            /\ runtime' = sel'.ret
            /\ sif_dir' = ChooseSifDir(env).ret
    /\ UNCHANGED <<env, lastProbe, lastOp, opCount, img, norm, lastArgs, mon, cache>>

\* An operation leaves a result with its caller and nothing else; args
\* keeps what it was called with and what its subprocesses did.
Operation(args, result) ==
    /\ pc = "ready"
    /\ opCount < MaxOps
    /\ lastArgs' = args
    /\ lastOp' = result
    /\ opCount' = opCount + 1
    /\ UNCHANGED <<env, pc, runtime, sif_dir, sel, selectRuns, lastProbe, img, norm, mon, cache>>

PullImage ==
    \E image \in OpImages, out \in RunOutcomes :
        Operation([op |-> "pull_image", image |-> image, out |-> out],
                  pull_image(env, runtime, sif_dir, image, out))

RunContainer ==
    \E p \in RunParamSets, o \in RunScenarios :
        Operation([op |-> "run_container", params |-> p, world |-> o],
                  run_container(env, runtime, p, o))

StopContainer ==
    \E out \in RunOutcomes :
        Operation([op |-> "stop_container", out |-> out], stop_container(runtime, "c1", out))

ListContainers ==
    \E all \in BOOLEAN, out \in RunOutcomes :
        Operation([op |-> "list_containers", out |-> out, all |-> all],
                  list_containers(env, runtime, all, out))

BuildImage ==
    \E conv \in BOOLEAN, out \in RunOutcomes :
        Operation([op |-> "build_image", out |-> out, conv |-> conv],
                  build_image(runtime, "Dockerfile", "tag", "ctx", conv, out))

GetRuntimeInfo ==
    \E out \in RunOutcomes :
        Operation([op |-> "get_runtime_info", out |-> out], get_runtime_info(env, runtime, out))

Next ==
    \/ Construct
    \/ PullImage
    \/ RunContainer
    \/ StopContainer
    \/ ListContainers
    \/ BuildImage
    \/ GetRuntimeInfo

Spec == Init /\ [][Next]_vars

----------------------------------------------------------------------------
(* The SIF cache on its own (SpecSif): a constructed manager and the three *)
(* places that name the cache file of one image reference.                 *)

\* Longest image reference looked up in the SIF cache, in tokens.
MaxSifTokens == 3

SifScenarios ==
    [info : {"ok", "nonzero", "oserror"}, pull : RunOutcomes, exists : BOOLEAN,
     inspect : {"ok", "nonzero"}]

InitSif ==
    /\ env \in {[BaseEnv EXCEPT !.hint = h, !.bin = b] :
                    h \in {"", APPTAINER},
                    b \in {BaseEnv.bin, [r \in SimpleRuntimes |-> "ok"]}}
    /\ runtime \in ContainerRuntime
    /\ sif_dir \in {TmpSifDir, HomeSifDir}
    /\ img \in {s \in RefsUpTo(MaxSifTokens) : WellFormed(s)}
               \cup {MyorgImage, QuayImage, LocalhostImage}
    /\ pc = "ready"
    /\ sel = NoSelection
    /\ selectRuns = 0
    /\ lastProbe = NoProbe
    /\ lastOp = NoOp
    /\ opCount = 0
    /\ norm = <<>>
    /\ lastArgs = NoArgs
    /\ mon = NoMonitor
    /\ cache = {}

\* A specification of single methods examines one call on a constructed
\* manager.
NoCallYet == pc = "ready" /\ opCount = 0

\* The call changes nothing but what its caller sees.
Call(args, result) ==
    /\ NoCallYet
    /\ lastArgs' = args
    /\ lastOp' = result
    /\ opCount' = opCount + 1
    /\ UNCHANGED <<env, pc, runtime, sif_dir, sel, selectRuns, lastProbe, img, norm, mon, cache>>

\* A result of a builder, as the result of an operation.
AsOp(op, r) == [calls |-> r.calls, exc |-> r.exc, ret |-> r.ret, op |-> op]

SifPullImage ==
    /\ NoCallYet
    /\ \E out \in RunOutcomes :
            Call([op |-> "pull_image", image |-> img, out |-> out],
                 pull_image(env, runtime, sif_dir, img, out))

SifBuildApptainerRunCommand ==
    /\ NoCallYet
    /\ \E x \in SifScenarios :
            Call([op |-> "_build_apptainer_run_command", image |-> img, world |-> x],
                 AsOp("_build_apptainer_run_command",
                      _build_apptainer_run_command(env, runtime, sif_dir, img, "c1", <<>>, <<>>,
                                                   <<>>, <<>>, FALSE, x)))

SifEnsureImageAvailable ==
    /\ NoCallYet
    /\ \E x \in SifScenarios :
            Call([op |-> "_ensure_image_available", image |-> img, world |-> x],
                 _ensure_image_available(env, runtime, sif_dir, img, x))

NextSif ==
    \/ SifPullImage
    \/ SifBuildApptainerRunCommand
    \/ SifEnsureImageAvailable

SpecSif == InitSif /\ [][NextSif]_vars

----------------------------------------------------------------------------
(* Properties of selection and probing, checked under SpecSelect.          *)

\* The preference order as the specification states it.
PreferenceOrder == <<APPTAINER, SINGULARITY, PODMAN, DOCKER>>

\* The probe of r returns True / returns False.
ReportsAvailable(e, r) ==
    /\ _check_runtime_available(e, r).exc = "none"
    /\ _check_runtime_available(e, r).ret

ReportsUnavailable(e, r) ==
    /\ _check_runtime_available(e, r).exc = "none"
    /\ ~_check_runtime_available(e, r).ret

\* Outcomes of a simple probe's subprocess that are failures.
FailedOutcomes == {"absent", "nonzero", "fnf"}

\* C1: with no host-runtime hint, whenever some runtime is reported
\* available and every runtime ahead of it in the order Apptainer,
\* Singularity, Podman, Docker is reported unavailable, selection returns
\* that runtime, in an HPC environment or not; so Apptainer wins over Docker.
C1_FirstAvailableWins ==
    (pc = "selected" /\ env.hint = "") =>
        \A i \in 1..Len(PreferenceOrder) :
            (/\ ReportsAvailable(env, PreferenceOrder[i])
             /\ \A j \in 1..(i - 1) : ReportsUnavailable(env, PreferenceOrder[j]))
            => (sel.exc = "none" /\ sel.ret = PreferenceOrder[i])

C1_Witness ==
    /\ pc = "selected"
    /\ env.hint = ""
    /\ _is_hpc_environment(env)
    /\ env.bin[APPTAINER] = "nonzero"
    /\ env.bin[SINGULARITY] = "absent"
    /\ env.bin[PODMAN] = "ok"
    /\ ReportsAvailable(env, DOCKER)
    /\ sel.ret = PODMAN

\* C2: a hint naming one of the four runtimes is returned as it is, and no
\* PATH lookup and no subprocess happens during the selection.
C2_HintBypassesProbes ==
    (pc = "selected" /\ env.hint \in ContainerRuntime) =>
        /\ sel.exc = "none"
        /\ sel.ret = env.hint
        /\ sel.calls = <<>>

C2_Witness ==
    /\ pc = "selected"
    /\ env.hint = PODMAN
    /\ \A r \in SimpleRuntimes : env.bin[r] = "absent"
    /\ ~env.docker.which
    /\ sel.ret = PODMAN
    /\ sel.calls = <<>>

\* C3 as stated: any non-empty hint makes the selection run no probe.
C3_AnyHintSkipsProbes ==
    (pc = "selected" /\ env.hint # "") => sel.calls = <<>>

\* C3 amended: the selection runs no probe exactly when the hint is one of
\* the four runtime names; any other value is ignored and probing starts.
C3_RecognisedHintSkipsProbes ==
    pc = "selected" => ((sel.calls = <<>>) <=> (env.hint \in ContainerRuntime))

C3_Witness ==
    /\ pc = "selected"
    /\ env.hint = "bogus"
    /\ sel.calls # <<>>
    /\ sel.ret = APPTAINER

\* A docker binary on PATH whose `--version` output contains "podman".
DockerIsPodmanShim(e) == e.docker.which /\ e.docker.v1 = "podman"

\* C4 as stated: with a podman shim as docker and a working podman, the
\* docker probe returns False and selection returns Podman.
C4_ShimSelectsPodman ==
    (DockerIsPodmanShim(env) /\ env.bin[PODMAN] = "ok") =>
        /\ (pc = "probed" /\ lastProbe.runtime = DOCKER) =>
               (lastProbe.exc = "none" /\ ~lastProbe.ret)
        /\ pc = "selected" => (sel.exc = "none" /\ sel.ret = PODMAN)

\* C4 amended: the docker probe returns False, and selection returns Podman
\* when no recognised hint is set and the Apptainer and Singularity probes
\* both report unavailable.
C4_ShimSelectsPodmanWhenFirst ==
    (DockerIsPodmanShim(env) /\ env.bin[PODMAN] = "ok") =>
        /\ (pc = "probed" /\ lastProbe.runtime = DOCKER) =>
               (lastProbe.exc = "none" /\ ~lastProbe.ret)
        /\ (/\ pc = "selected"
            /\ env.hint \notin ContainerRuntime
            /\ env.bin[APPTAINER] \in FailedOutcomes
            /\ env.bin[SINGULARITY] \in FailedOutcomes)
           => (sel.exc = "none" /\ sel.ret = PODMAN)

C4_Witness ==
    /\ pc = "selected"
    /\ DockerIsPodmanShim(env)
    /\ env.bin[PODMAN] = "ok"
    /\ env.hint = ""
    /\ env.bin[APPTAINER] = "absent"
    /\ env.bin[SINGULARITY] = "absent"
    /\ sel.ret = PODMAN

\* C5: no probe raises and no probe failure leaves the selection: a failed
\* subprocess of a probe makes that probe return False.
C5_ProbeNeverRaises ==
    /\ pc = "probed" => lastProbe.exc = "none"
    /\ (pc = "probed" /\ lastProbe.runtime \in SimpleRuntimes
        /\ env.bin[lastProbe.runtime] # "ok") => ~lastProbe.ret
    /\ pc = "selected" => sel.exc # "OSError"

\* C6: selection ends with the no-runtime-found error exactly when no
\* recognised hint is set, all four probes report unavailable and the
\* marker inference matches nothing; otherwise it returns a runtime.
C6_NoRuntimeFoundIff ==
    pc = "selected" =>
        /\ (sel.exc = "NoRuntimeFound") <=>
               (/\ env.hint \notin ContainerRuntime
                /\ \A r \in ContainerRuntime : ReportsUnavailable(env, r)
                /\ _detect_runtime_from_environment(env).exc = "none"
                /\ _detect_runtime_from_environment(env).ret = "none")
        /\ sel.exc # "NoRuntimeFound" =>
               (sel.exc = "none" /\ sel.ret \in ContainerRuntime)

----------------------------------------------------------------------------
(* Properties of normalisation, checked under SpecNorm.                    *)

BeginsWithDockerIo(s) == Len(s) >= 2 /\ s[1] = "docker.io" /\ s[2] = "/"

HasSlash(s) == \E i \in DOMAIN s : s[i] = "/"

\* The part of a reference before its first "/".
FirstSegment(s) ==
    SubSeq(s, 1, (CHOOSE i \in DOMAIN s : s[i] = "/" /\ \A j \in 1..(i - 1) : s[j] # "/") - 1)

\* A reference whose first path segment is a registry host: it contains a
\* dot or a port, or is localhost.
HasExplicitRegistry(s) ==
    /\ HasSlash(s)
    /\ \E i \in DOMAIN FirstSegment(s) :
           FirstSegment(s)[i] \in {"docker.io", "quay.io", "localhost", ":"}

\* C9: for Podman, normalising a normalised reference changes nothing; a
\* reference that starts with docker.io/ or has no "/" is returned as it
\* is; myorg/myimage:latest becomes docker.io/myorg/myimage:latest.
C9_NormalizeIdempotent ==
    runtime = PODMAN =>
        /\ Len(norm) >= 1 =>
               /\ norm[1].exc = "none"
               /\ BeginsWithDockerIo(img) => norm[1].ret = img
               /\ ~HasSlash(img) => norm[1].ret = img
               /\ img = MyorgImage =>
                      norm[1].ret = <<"docker.io", "/", "myorg", "/", "myimage", ":", "latest">>
        /\ Len(norm) >= 2 => (norm[2].exc = "none" /\ norm[2].ret = norm[1].ret)

C9_Witness ==
    /\ runtime = PODMAN
    /\ img = MyorgImage
    /\ Len(norm) = 2
    /\ norm[1].ret # img
    /\ norm[2].ret = norm[1].ret

\* C10: for Podman, a reference that names a registry host is returned
\* unchanged.
C10_RegistryKept ==
    (runtime = PODMAN /\ Len(norm) >= 1 /\ HasExplicitRegistry(img)) =>
        norm[1].ret = img

----------------------------------------------------------------------------
(* Properties of the manager's life cycle, checked under Spec.             *)

\* C7: once a manager is constructed, after any sequence of operations
\* (failed ones included) its runtime is the one selected at construction,
\* selection has run exactly once, and every subprocess or client call of
\* the last operation addresses that runtime.
C7_RuntimeFixed ==
    pc = "ready" =>
        /\ runtime \in ContainerRuntime
        /\ sel.exc = "none"
        /\ runtime = sel.ret
        /\ selectRuns = 1
        /\ \A i \in DOMAIN lastOp.calls :
               lastOp.calls[i].kind \in {"run", "client"} => lastOp.calls[i].bin = runtime

C7_Witness ==
    /\ pc = "ready"
    /\ runtime = PODMAN
    /\ opCount >= 2
    /\ lastOp.op = "run_container"
    /\ lastOp.exc = "RuntimeError"
    /\ \E i \in DOMAIN lastOp.calls :
           lastOp.calls[i].kind = "run" /\ lastOp.calls[i].bin = PODMAN

----------------------------------------------------------------------------
(* The command builders on their own (SpecBuild): the dispatch of          *)
(* _build_run_command on the manager's runtime, and each builder called    *)
(* directly.                                                               *)

BuildParams ==
    [image : OpImages, name : {"", "c1", "--userns=keep-id"},
     command : {<<>>, <<"bash">>, <<"sleep", "infinity">>, <<"a", "&&", "b">>, <<"ls", "-v">>,
                <<"echo", "a|b">>, <<"podman", "run", "--userns=keep-id", "img">>},
     volumes : {<<>>, <<<<"/data", "/workspace/data">>>>,
                <<<<"/data", "/workspace/data">>, <<"/home", "/host-home">>>>},
     ports : {<<>>, <<<<"8888", "8888">>>>},
     environment : {<<>>, <<<<"K", "V">>>>}, detach : BOOLEAN,
     working_dir : {"", "/workspace"}]

\* A world in which the SIF file of the image is cached.
NoWorld == [pull |-> "ok", exists |-> TRUE]

InitBuild ==
    /\ env = [BaseEnv EXCEPT !.bin = [r \in SimpleRuntimes |-> "ok"]]
    /\ runtime \in ContainerRuntime
    /\ sif_dir \in {TmpSifDir, HomeSifDir}
    /\ img = <<>>
    /\ pc = "ready"
    /\ sel = NoSelection
    /\ selectRuns = 0
    /\ lastProbe = NoProbe
    /\ lastOp = NoOp
    /\ opCount = 0
    /\ norm = <<>>
    /\ lastArgs = NoArgs
    /\ mon = NoMonitor
    /\ cache = {}

BuildRunCommand ==
    /\ NoCallYet
    /\ \E p \in BuildParams :
            Call([op |-> "_build_run_command", params |-> p, world |-> NoWorld],
                 AsOp("_build_run_command",
                      _build_run_command(runtime, p.image, p.name, p.command, p.volumes, p.ports,
                                         p.environment, p.detach, p.working_dir)))

BuildDockerRunCommand ==
    /\ NoCallYet
    /\ \E p \in BuildParams :
            Call([op |-> "_build_docker_run_command", params |-> p, world |-> NoWorld],
                 OpReturned("_build_docker_run_command",
                            _build_docker_run_command(p.image, p.name, p.command, p.volumes,
                                                      p.ports, p.environment, p.detach,
                                                      p.working_dir), <<>>))

BuildPodmanRunCommand ==
    /\ NoCallYet
    /\ \E p \in BuildParams :
            Call([op |-> "_build_podman_run_command", params |-> p, world |-> NoWorld],
                 OpReturned("_build_podman_run_command",
                            _build_podman_run_command(p.image, p.name, p.command, p.volumes,
                                                      p.ports, p.environment, p.detach,
                                                      p.working_dir), <<>>))

BuildApptainerRunCommand ==
    /\ NoCallYet
    /\ \E p \in BuildParams, x \in [pull : {"ok", "nonzero"}, exists : BOOLEAN] :
            Call([op |-> "_build_apptainer_run_command", params |-> p, world |-> x],
                 AsOp("_build_apptainer_run_command",
                      _build_apptainer_run_command(env, runtime, sif_dir, p.image, p.name,
                                                   p.command, p.volumes, p.ports, p.environment,
                                                   p.detach, x)))

BuildSingularityRunCommand ==
    /\ NoCallYet
    /\ \E p \in BuildParams :
            Call([op |-> "_build_singularity_run_command", params |-> p, world |-> NoWorld],
                 OpReturned("_build_singularity_run_command",
                            _build_singularity_run_command(p.image, p.name, p.command, p.volumes,
                                                           p.ports, p.environment, p.detach),
                            <<>>))

NextBuild ==
    \/ BuildRunCommand
    \/ BuildDockerRunCommand
    \/ BuildPodmanRunCommand
    \/ BuildApptainerRunCommand
    \/ BuildSingularityRunCommand

SpecBuild == InitBuild /\ [][NextBuild]_vars

----------------------------------------------------------------------------
(* Parsing of `ps` output on its own (SpecPs).                             *)

\* Most lines of an output text, and most fields of a line.
MaxLines == 3

MaxFields == 8

\* A line of n fields; field i of line k has the text <<k, i>>.
Line(n, pad, k) == [i \in 1..n |-> Field(pad, <<k, i>>)]

\* An empty line, a line of spaces, a line of seven empty fields, lines of
\* every length, and a second seven-field line whose fields are padded.
PsOutputs ==
    LET lines == {<<Field(FALSE, <<>>)>>, <<Field(TRUE, <<>>)>>,
                  [i \in 1..7 |-> Field(FALSE, <<>>)]}
                 \cup {Line(n, FALSE, 1) : n \in 1..MaxFields}
                 \cup {Line(1, TRUE, 1), Line(7, TRUE, 2)}
    IN  UNION {[1..n -> lines] : n \in 1..MaxLines}

InitPs ==
    /\ env = BaseEnv
    /\ runtime \in {DOCKER, PODMAN}
    /\ sif_dir = TmpSifDir
    /\ img = <<>>
    /\ pc = "ready"
    /\ sel = NoSelection
    /\ selectRuns = 0
    /\ lastProbe = NoProbe
    /\ lastOp = NoOp
    /\ opCount = 0
    /\ norm = <<>>
    /\ lastArgs = NoArgs
    /\ mon = NoMonitor
    /\ cache = {}

ParseDockerPsOutput ==
    /\ NoCallYet
    /\ \E output \in PsOutputs :
            Call([op |-> "_parse_docker_ps_output", output |-> output],
                 OpReturned("_parse_docker_ps_output", _parse_docker_ps_output(output), <<>>))

NextPs == ParseDockerPsOutput

SpecPs == InitPs /\ [][NextPs]_vars

----------------------------------------------------------------------------
(* Pulls and runs of several references on one Apptainer manager           *)
(* (SpecCache): the cache keeps every file a pull wrote.                   *)

MaxCacheOps == 2

\* References of at most MaxSifTokens tokens that begin and end with a word.
CacheRefs ==
    {s \in RefsUpTo(MaxSifTokens) :
        /\ s # <<>>
        /\ WellFormed(s)
        /\ s[1] \in Words
        /\ s[Len(s)] \in Words
        /\ \A i \in 1..(Len(s) - 1) : ~(s[i] \in Separators /\ s[i + 1] \in Separators)}
    \cup {MyorgImage}

InitCache ==
    /\ env = [BaseEnv EXCEPT !.bin = [r \in SimpleRuntimes |-> "ok"]]
    /\ runtime = APPTAINER
    /\ sif_dir \in {TmpSifDir, HomeSifDir}
    /\ img = <<>>
    /\ pc = "ready"
    /\ sel = NoSelection
    /\ selectRuns = 0
    /\ lastProbe = NoProbe
    /\ lastOp = NoOp
    /\ opCount = 0
    /\ norm = <<>>
    /\ lastArgs = NoArgs
    /\ mon = NoMonitor
    /\ cache = {}

\* One more operation on the manager; a pull that succeeded has written the
\* file it was told to pull into.
CacheStep(args, result, pulled) ==
    /\ opCount < MaxCacheOps
    /\ lastArgs' = args
    /\ lastOp' = result
    /\ opCount' = opCount + 1
    /\ cache' = IF pulled
                THEN cache \cup {[image |-> args.image, path |-> SifPath(sif_dir, args.image)]}
                ELSE cache
    /\ UNCHANGED <<env, pc, runtime, sif_dir, sel, selectRuns, lastProbe, img, norm, mon>>

\* pull_image(image)
CachePullImage ==
    \E image \in CacheRefs, out \in {"ok", "nonzero"} :
        CacheStep([op |-> "pull_image", image |-> image, out |-> out],
                  pull_image(env, runtime, sif_dir, image, out), out = "ok")

\* _build_apptainer_run_command(image, ...): Path.exists() answers from the
\* files of the cache, and an absent file is pulled.
CacheBuildRunCommand ==
    \E image \in CacheRefs, out \in {"ok", "nonzero"} :
        LET found == \E file \in cache : file.path = SifPath(sif_dir, image)
            x == [pull |-> out, exists |-> found]
        IN  CacheStep([op |-> "_build_apptainer_run_command", image |-> image, world |-> x],
                      AsOp("_build_apptainer_run_command",
                           _build_apptainer_run_command(env, runtime, sif_dir, image, "c1",
                                                        <<>>, <<>>, <<>>, <<>>, FALSE, x)),
                      ~found /\ out = "ok")

NextCache ==
    \/ CachePullImage
    \/ CacheBuildRunCommand

SpecCache == InitCache /\ [][NextCache]_vars

----------------------------------------------------------------------------
(* The package-change watcher of VenvoyEnvironment.run (SpecMonitor).      *)
(* mon.pc is the position of the watcher thread in its loop, mon.container *)
(* the state of the container it polls, mon.signal whether the signal file *)
(* exists in the container, mon.saves how often the environment was        *)
(* auto-saved, mon.polled what the last `docker exec` did, mon.caught the  *)
(* last exception the loop caught, mon.pending whether the signal file was *)
(* written after the last auto-save began.                                 *)

MaxSaves == 2

\* What a `docker exec` can do: exit 0, exit non-zero, fail to spawn, or not
\* be attempted because no docker binary was found.  The operand "-" of
\* `test - <file>` and `rm - <file>` is no option: the exit status for a
\* file that exists is 0 or not, depending on the tool in the container.
ExecOutcomes(succeeds) ==
    (IF succeeds THEN {"zero", "nonzero"} ELSE {"nonzero"}) \cup {"notfound", "oserror"}

\* _run_docker_command: _find_docker_command raises RuntimeError when no
\* docker binary exists; subprocess.run raises CalledProcessError on a
\* non-zero exit only when the caller passes check=True.
_run_docker_command(args, out, check) ==
    CASE out = "notfound" -> Raised("RuntimeError", <<>>)
      [] out = "oserror" -> Raised("OSError", <<RunCall(DOCKER, args)>>)
      [] out = "nonzero" /\ check -> Raised("CalledProcessError", <<RunCall(DOCKER, args)>>)
      [] OTHER -> Returned(out, <<RunCall(DOCKER, args)>>)

\* The except clauses of the loop: CalledProcessError breaks out of it, any
\* other exception is printed and followed by time.sleep(5).
Caught(x) == IF x = "CalledProcessError" THEN "done" ELSE "sleep5"

InitMon ==
    /\ env = BaseEnv
    /\ runtime = DOCKER
    /\ sif_dir = TmpSifDir
    /\ img = <<>>
    /\ pc = "ready"
    /\ sel = NoSelection
    /\ selectRuns = 0
    /\ lastProbe = NoProbe
    /\ lastOp = NoOp
    /\ opCount = 0
    /\ norm = <<>>
    /\ lastArgs = NoArgs
    /\ mon = NoMonitor
    /\ cache = {}

MonitorStep(m) ==
    /\ mon' = m
    /\ UNCHANGED <<env, pc, runtime, sif_dir, sel, selectRuns, lastProbe, lastOp,
                   opCount, img, norm, lastArgs, cache>>

\* run starts the watcher thread before it launches the container.
StartMonitor ==
    /\ mon.pc = "idle"
    /\ MonitorStep([mon EXCEPT !.pc = "test"])

\* run_container launches the container the watcher polls.
ContainerStarts ==
    /\ mon.pc # "idle"
    /\ mon.container = "absent"
    /\ MonitorStep([mon EXCEPT !.container = "up"])

\* The container exits.
ContainerStops ==
    /\ mon.container = "up"
    /\ MonitorStep([mon EXCEPT !.container = "stopped"])

\* The monitor inside the container writes the signal file, whether or
\* not an earlier one is still there.
PackageChanged ==
    /\ mon.container = "up"
    /\ MonitorStep([mon EXCEPT !.signal = TRUE, !.pending = TRUE])

\* docker exec <name> test - /tmp/venvoy_package_changed, with
\* capture_output=True and no check=True.
MonitorTest ==
    /\ mon.pc = "test"
    /\ \E out \in ExecOutcomes(mon.container = "up" /\ mon.signal) :
          LET result == _run_docker_command(
                            <<W("exec"), W("c1"), W("test"), W("-"),
                              <<"/", "tmp", "/", "venvoy_package_changed">>>>, out, FALSE)
          IN  MonitorStep(
                  IF result.exc # "none"
                  THEN [mon EXCEPT !.pc = Caught(result.exc), !.polled = out,
                                   !.caught = result.exc]
                  ELSE IF result.ret = "zero" THEN [mon EXCEPT !.pc = "save", !.polled = out]
                  ELSE [mon EXCEPT !.pc = "sleep2", !.polled = out])

\* auto_save_environment, which catches every exception it meets.
MonitorSave ==
    /\ mon.pc = "save"
    /\ MonitorStep([mon EXCEPT !.pc = "rm",
                               !.saves = IF @ < MaxSaves THEN @ + 1 ELSE @,
                               !.pending = FALSE])

\* docker exec <name> rm - /tmp/venvoy_package_changed: in a running
\* container the file is gone afterwards; the exit status is not looked at.
MonitorRm ==
    /\ mon.pc = "rm"
    /\ \E out \in ExecOutcomes(mon.container = "up" /\ mon.signal) :
          LET result == _run_docker_command(
                            <<W("exec"), W("c1"), W("rm"), W("-"),
                              <<"/", "tmp", "/", "venvoy_package_changed">>>>, out, FALSE)
          IN  MonitorStep(
                  IF result.exc # "none"
                  THEN [mon EXCEPT !.pc = Caught(result.exc), !.polled = out,
                                   !.caught = result.exc]
                  ELSE [mon EXCEPT !.pc = "sleep2", !.polled = out,
                                   !.signal = IF mon.container = "up" THEN FALSE ELSE @])

\* time.sleep(2) or time.sleep(5) returns and the loop starts over.
MonitorSleep ==
    /\ mon.pc \in {"sleep2", "sleep5"}
    /\ MonitorStep([mon EXCEPT !.pc = "test"])

\* The thread is a daemon: the exit of the process ends it.
ProcessExit ==
    /\ mon.pc \notin {"idle", "done", "killed"}
    /\ MonitorStep([mon EXCEPT !.pc = "killed"])

NextMon ==
    \/ StartMonitor
    \/ ContainerStarts
    \/ ContainerStops
    \/ PackageChanged
    \/ MonitorTest
    \/ MonitorSave
    \/ MonitorRm
    \/ MonitorSleep
    \/ ProcessExit

\* A started thread keeps being scheduled, its subprocesses return and its
\* sleeps end; nothing obliges the container to stop or the process to exit.
SpecMonitor ==
    /\ InitMon
    /\ [][NextMon]_vars
    /\ WF_vars(MonitorTest \/ MonitorSave \/ MonitorRm \/ MonitorSleep)

----------------------------------------------------------------------------
(* Properties of the SIF cache, checked under SpecSif.                     *)

\* The last path component: what follows the last "/" of a path.
FileName(path) ==
    LET slashes == {i \in DOMAIN path : path[i] = "/"}
        last == CHOOSE i \in slashes : \A j \in slashes : j <= i
    IN  SubSeq(path, last + 1, Len(path))

\* name is r with every "/" and ":" replaced by "-", followed by one ".si".
IsSanitisedName(r, name) ==
    /\ Len(name) = Len(r) + 1
    /\ name[Len(name)] = ".si"
    /\ \A i \in DOMAIN r :
           name[i] = (IF r[i] = "/" THEN "-" ELSE IF r[i] = ":" THEN "-" ELSE r[i])

\* The cache files an operation named: those it tested for existence, those
\* it told the runtime to pull into, and the one a built command runs.
CachePaths(o) ==
    {o.calls[i].args[1] : i \in {j \in DOMAIN o.calls : o.calls[j].kind = "exists"}}
    \cup {o.calls[i].args[2] :
             i \in {j \in DOMAIN o.calls :
                       /\ o.calls[j].kind = "run"
                       /\ Len(o.calls[j].args) = 3
                       /\ o.calls[j].args[1] = W("pull")}}
    \cup (IF o.op = "_build_apptainer_run_command" /\ o.exc = "none"
          THEN {o.ret[i] : i \in {j \in DOMAIN o.ret : o.ret[j][1] = sif_dir}}
          ELSE {})

SifOperations == {"pull_image", "_build_apptainer_run_command", "_ensure_image_available"}

\* C11: whichever of pull_image, the Apptainer run builder and the
\* image-availability check is called with the reference img, and whatever
\* the runtime, the cache directory and the outcome of the call, every cache
\* file it names is img with each "/" and ":" replaced by "-" and one ".si"
\* appended.
C11_SifFilename ==
    lastArgs.op \in SifOperations =>
        \A path \in CachePaths(lastOp) : IsSanitisedName(lastArgs.image, FileName(path))

C11_Witness ==
    /\ lastArgs.op = "_build_apptainer_run_command"
    /\ lastArgs.image = MyorgImage
    /\ runtime = APPTAINER
    /\ lastOp.exc = "none"
    /\ \E i \in DOMAIN lastOp.calls :
           lastOp.calls[i].kind = "run" /\ lastOp.calls[i].args[1] = W("pull")
    /\ \E i \in DOMAIN lastOp.calls : lastOp.calls[i].kind = "exists"
    /\ CachePaths(lastOp) =
           {<<sif_dir, "/", "myorg", "-", "myimage", "-", "latest", ".si">>}

----------------------------------------------------------------------------
(* Properties of `ps` parsing, checked under SpecPs.                       *)

\* The entry a line of seven fields stands for: its fields, trimmed, under
\* the seven names in order.
EntryFields == <<"id", "image", "command", "created", "status", "ports", "name">>

EntryOf(line) ==
    [key \in {EntryFields[i] : i \in 1..7} |->
        line[CHOOSE i \in 1..7 : EntryFields[i] = key].text]

\* The entries of the lines from the i-th on: a blank line and a line of
\* fewer than seven fields give none, any other line gives one.
ExpectedEntries(output) ==
    LET RECURSIVE E(_)
        E(i) == IF i > Len(output) THEN <<>>
                ELSE IF Len(output[i]) < 7 THEN E(i + 1)
                ELSE <<EntryOf(output[i])>> \o E(i + 1)
    IN  E(1)

\* C12: parsing never raises; blank lines and lines of fewer than seven
\* "|"-separated fields give no entry, and every line of seven fields gives
\* one entry holding id, image, command, created, status, ports and name in
\* that order, trimmed; the entries are in line order.  (A line of more than
\* seven fields gives the entry of its first seven.)
C12_PsParsing ==
    lastArgs.op = "_parse_docker_ps_output" =>
        /\ lastOp.exc = "none"
        /\ lastOp.ret = ExpectedEntries(lastArgs.output)

C12_Witness ==
    /\ lastArgs.op = "_parse_docker_ps_output"
    /\ runtime = PODMAN
    /\ Len(lastArgs.output) = 3
    /\ lastArgs.output[1] = Line(7, FALSE, 1)
    /\ lastArgs.output[2] = Line(6, FALSE, 1)
    /\ lastArgs.output[3] = Line(7, TRUE, 2)
    /\ Len(lastOp.ret) = 2
    /\ lastOp.ret[1].id = <<1, 1>>
    /\ lastOp.ret[2].id = <<2, 1>>
    /\ lastOp.ret[2].name = <<2, 7>>

----------------------------------------------------------------------------
(* Properties of run_container and pull_image, checked under Spec.         *)

\* The last operation was a run_container that spawned the launch
\* subprocess `<runtime> run ...`.
LaunchSpawned ==
    /\ lastArgs.op = "run_container"
    /\ \E i \in DOMAIN lastOp.calls :
           /\ lastOp.calls[i].kind = "run"
           /\ lastOp.calls[i].args # <<>>
           /\ lastOp.calls[i].args[1] = W("run")

\* The launch subprocess came from a binary on PATH and exited 0.
Launched ==
    /\ LaunchSpawned
    /\ lastArgs.world.run = "ok"
    /\ OnPath(env, runtime)

\* C13: a detached run whose launch exited 0 and whose container `ps
\* --filter name=<name>` then shows as "Exited (1)" raises an error that
\* holds the container's logs, whatever the runtime.
C13_ExitedDetachedRaises ==
    (Launched /\ lastArgs.params.detach /\ lastArgs.world.ps = "exited"
              /\ lastArgs.world.logs = "ok") =>
        (lastOp.exc = "RuntimeError" /\ lastOp.ret = LogText)

----------------------------------------------------------------------------
(* Properties of the command builders, checked under SpecBuild.            *)

KeepId == W("--userns=keep-id")

Occurrences(argv, a) == {i \in DOMAIN argv : argv[i] = a}

\* Where argv has a `-v host:container` flag of one of the volumes.
VolumeFlags(argv, volumes) ==
    {i \in 1..(Len(argv) - 1) :
        /\ argv[i] = W("-v")
        /\ \E j \in DOMAIN volumes : argv[i + 1] = <<volumes[j][1], ":", volumes[j][2]>>}

\* The last call built a Podman run command, directly or through the
\* dispatch of a manager whose runtime is Podman.
PodmanBuilt ==
    /\ lastOp.exc = "none"
    /\ \/ lastArgs.op = "_build_podman_run_command"
       \/ lastArgs.op = "_build_run_command" /\ runtime = PODMAN

----------------------------------------------------------------------------
(* Properties of construction, checked under Spec.                         *)

\* The directories the specification lets the cache be in, and whether one
\* can be created.
CacheCandidates(e) == {TmpSifDir} \cup (IF e.homeWritable THEN {HomeSifDir} ELSE {})

Creatable(e, dir) == IF dir = HomeSifDir THEN e.mkdirHome ELSE e.mkdirTmp

\* C15: a manager constructed inside a container whose home directory is
\* not writable keeps its SIF cache under /tmp, never under home.
C15_TmpWhenHomeUnwritable ==
    (pc = "ready" /\ _is_inside_container(env) /\ ~env.homeWritable) =>
        (sif_dir = TmpSifDir /\ sif_dir # HomeSifDir)

C15_Witness ==
    /\ pc = "ready"
    /\ env.dockerenv
    /\ ~env.homeWritable
    /\ env.mkdirHome
    /\ sif_dir = TmpSifDir
    /\ opCount >= 1

\* C16: once selection has succeeded, construction fails (with the cache
\* directory error) exactly when no candidate directory can be created; a
\* constructed manager's cache directory is a candidate that could be
\* created.
C16_CacheDirErrorIff ==
    (pc # "new" /\ sel.exc = "none") =>
        /\ pc = "failed" <=> \A d \in CacheCandidates(env) : ~Creatable(env, d)
        /\ pc = "ready" =>
               /\ sif_dir \in CacheCandidates(env)
               /\ Creatable(env, sif_dir)

C16_Witness ==
    /\ pc = "failed"
    /\ sel.exc = "none"
    /\ env.homeWritable
    /\ ~env.mkdirHome
    /\ ~env.mkdirTmp
    /\ sif_dir = "none"

----------------------------------------------------------------------------
(* Failures of subprocesses, checked under Spec.                           *)

\* C17: a synchronous run whose launch subprocess exits non-zero leaves
\* run_container with a raised error, never with a return value.
C17_SyncFailureRaises ==
    (LaunchSpawned /\ ~lastArgs.params.detach /\ lastArgs.world.run = "nonzero") =>
        lastOp.exc # "none"

\* The pull subprocesses `<runtime> pull ...` the last operation spawned.
PullSpawns ==
    {i \in DOMAIN lastOp.calls :
        /\ lastOp.calls[i].kind = "run"
        /\ lastOp.calls[i].bin = runtime
        /\ lastOp.calls[i].args # <<>>
        /\ lastOp.calls[i].args[1] = W("pull")}

\* The runtime's binary is missing, or the pull subprocess was spawned and
\* exited non-zero (or its binary vanished before the spawn).
PullFailed ==
    \/ ~OnPath(env, runtime)
    \/ PullSpawns # {} /\ lastArgs.out \in {"nonzero", "fnf"}

\* C18: pull_image spawns the runtime's pull subprocess at most once, and
\* when the binary is missing or the subprocess exits non-zero it returns
\* False without raising.
C18_PullNeverRetries ==
    lastArgs.op = "pull_image" =>
        /\ Cardinality(PullSpawns) <= 1
        /\ PullFailed => (lastOp.exc = "none" /\ lastOp.ret = "False")

\* A pull that was spawned once, exited non-zero and was reported as False.
C18_Witness ==
    /\ lastArgs.op = "pull_image"
    /\ lastArgs.out = "nonzero"
    /\ Cardinality(PullSpawns) = 1
    /\ lastOp.exc = "none"
    /\ lastOp.ret = "False"

----------------------------------------------------------------------------
(* The dispatch of the run command, checked under SpecBuild.               *)

\* C19: for each of the four runtimes and every parameter set, the
\* dispatch _build_run_command returns without raising, and the vector it
\* returns starts with the active runtime's own binary.
C19_DispatchInDialect ==
    lastArgs.op = "_build_run_command" =>
        /\ lastOp.exc = "none"
        /\ lastOp.ret # <<>>
        /\ lastOp.ret[1] = W(runtime)

----------------------------------------------------------------------------
(* Termination of the watcher, checked under SpecMonitor.                  *)

\* The container the watcher polls has stopped and the last `docker exec`
\* of the watcher exited non-zero.
WatchedContainerStopped == mon.container = "stopped" /\ mon.polled = "nonzero"

\* The loop has been left, or the thread died with its process.
WatcherEnded == mon.pc \in {"done", "killed"}

\* C20: once the watched container has stopped and the polled exec calls
\* return non-zero, the watcher loop eventually ends.
C20_WatcherTerminates == WatchedContainerStopped ~> WatcherEnded

----------------------------------------------------------------------------
(* The two forms of the volume map, checked under Spec.                    *)

\* The `-v` flags of an argument vector, as the set of their values.
BindValues(args) ==
    {args[i + 1] : i \in {j \in 1..(Len(args) - 1) : args[j] = W("-v")}}

\* host:container of every entry of the caller's volume map.
ExpectedBinds(volumes) ==
    {<<volumes[i].host, ":", volumes[i].bind>> : i \in DOMAIN volumes}

\* C21: the launch command of run_container binds exactly the host paths
\* of the caller's volume map, each to its container path (the bind of a
\* nested value, the value itself otherwise), and the client library is
\* handed the caller's map unchanged.
C21_VolumeTranslation ==
    lastArgs.op = "run_container" =>
        \A i \in DOMAIN lastOp.calls :
            LET call == lastOp.calls[i]
            IN  /\ (call.kind = "run" /\ call.args # <<>> /\ call.args[1] = W("run")) =>
                       /\ BindValues(call.args) = ExpectedBinds(lastArgs.params.volumes)
                       /\ Cardinality(Occurrences(call.args, W("-v")))
                              = Len(lastArgs.params.volumes)
                /\ call.kind = "client" => call.volumes = lastArgs.params.volumes

\* A launch from a map of three entries, two of them nested.
C21_Witness ==
    /\ LaunchSpawned
    /\ Len(lastArgs.params.volumes) = 3
    /\ \E i \in DOMAIN lastArgs.params.volumes : lastArgs.params.volumes[i].nested
    /\ lastOp.exc = "none"

----------------------------------------------------------------------------
(* The inconclusive shim check of the docker probe, under SpecSelect.      *)

\* docker is on PATH, its version output does not say "podman", and the
\* `docker buildx version` probe fails or lacks the buildx signature.
ShimCheckInconclusive ==
    /\ env.docker.which
    /\ env.docker.v1 = "plain"
    /\ env.docker.v2 = "ok"
    /\ env.docker.buildx \in {"nosig", "nonzero", "fnf"}
    /\ env.docker.info \in {"ok", "nonzero"}

\* C22: after an inconclusive shim check the docker probe reports
\* unavailable when a podman binary is on PATH, and otherwise reports
\* whether `docker info` succeeds.
C22_InconclusiveTrustsDocker ==
    (pc = "probed" /\ lastProbe.runtime = DOCKER /\ ShimCheckInconclusive) =>
        /\ lastProbe.exc = "none"
        /\ lastProbe.ret = IF env.bin[PODMAN] # "absent" THEN FALSE
                           ELSE env.docker.info = "ok"

----------------------------------------------------------------------------
(* Marker-based inference against the container detector, SpecSelect.      *)

\* No hint is set, no probe finds a working binary, and /proc/1/cgroup can
\* be read if it exists.
EveryProbeFails ==
    /\ env.hint = ""
    /\ ~env.docker.which
    /\ \A r \in SimpleRuntimes : env.bin[r] \in {"absent", "nonzero"}
    /\ env.cgroup # "unreadable"

\* C23: with no hint and every probe failing, selection returns a runtime
\* in every context the container detector recognises.
C23_InferenceCoversDetector ==
    (pc = "selected" /\ EveryProbeFails /\ _is_inside_container(env)) =>
        (sel.exc = "none" /\ sel.ret \in ContainerRuntime)

----------------------------------------------------------------------------
(* Order of the Docker and Podman run vectors, checked under SpecBuild.    *)

\* The last call built a Docker or Podman run vector, directly or through
\* the dispatch, and the binary that vector has to start with.
BuiltBinary ==
    CASE lastArgs.op = "_build_docker_run_command" -> DOCKER
      [] lastArgs.op = "_build_podman_run_command" -> PODMAN
      [] lastArgs.op = "_build_run_command" /\ runtime \in {DOCKER, PODMAN} -> runtime
      [] OTHER -> "none"

\* Options that take a value, and the group every option belongs to.
ValueOptions == {W("--name"), W("-v"), W("-p"), W("-e"), W("-w")}

GroupOf(option) ==
    CASE option = W("--name") -> 1
      [] option = W("-d") -> 2
      [] option = KeepId -> 3
      [] option = W("-v") -> 4
      [] option = W("-p") -> 5
      [] option = W("-e") -> 6
      [] option = W("-w") -> 7
      [] OTHER -> 0

\* argv[i..m-1] read as options, each with the value it takes (<<>> if none).
RECURSIVE Options(_, _, _)
Options(argv, i, m) ==
    IF i >= m THEN <<>>
    ELSE IF argv[i] \in ValueOptions /\ i + 1 < m
    THEN <<[option |-> argv[i], value |-> argv[i + 1]]>> \o Options(argv, i + 2, m)
    ELSE <<[option |-> argv[i], value |-> <<>>]>> \o Options(argv, i + 1, m)

\* The values of one option, in the order they appear.
ValuesOf(options, option) ==
    LET RECURSIVE V(_)
        V(i) == IF i > Len(options) THEN <<>>
                ELSE IF options[i].option = option THEN <<options[i].value>> \o V(i + 1)
                ELSE V(i + 1)
    IN  V(1)

Joined(pairs, sep) == [i \in DOMAIN pairs |-> <<pairs[i][1], sep, pairs[i][2]>>]

\* The two forms in which a command can follow the image.
ShellForm(command) == <<W("sh"), W("-c"), command>>

SplitForm(command) == [i \in DOMAIN command |-> W(command[i])]

\* C24: a Docker or Podman run vector is the binary, `run`, then the
\* options in the order name, detach, volumes, ports, environment,
\* working directory, then the image, then nothing but the command.
C24_FixedOrder ==
    (BuiltBinary # "none" /\ lastOp.exc = "none") =>
        LET argv == lastOp.ret
            p == lastArgs.params
        IN  /\ Len(argv) >= 3
            /\ argv[1] = W(BuiltBinary)
            /\ argv[2] = W("run")
            /\ \E m \in 3..Len(argv) :
                 LET options == Options(argv, 3, m)
                     after == SubSeq(argv, m + 1, Len(argv))
                 IN  /\ argv[m] = p.image
                     /\ \A i, j \in DOMAIN options :
                            /\ GroupOf(options[i].option) > 0
                            /\ i < j => GroupOf(options[i].option) <= GroupOf(options[j].option)
                     /\ ValuesOf(options, W("--name"))
                            = (IF p.name # "" THEN <<W(p.name)>> ELSE <<>>)
                     /\ ValuesOf(options, W("-d")) = (IF p.detach THEN <<<<>>>> ELSE <<>>)
                     /\ ValuesOf(options, W("-v")) = Joined(p.volumes, ":")
                     /\ ValuesOf(options, W("-p")) = Joined(p.ports, ":")
                     /\ ValuesOf(options, W("-e")) = Joined(p.environment, "=")
                     /\ ValuesOf(options, W("-w"))
                            = (IF p.working_dir # "" THEN <<W(p.working_dir)>> ELSE <<>>)
                     /\ IF p.command = <<>> THEN after = <<>>
                        ELSE after \in {ShellForm(p.command), SplitForm(p.command)}

\* A Docker vector with every group present.
C24_Witness ==
    /\ BuiltBinary = DOCKER
    /\ lastOp.exc = "none"
    /\ lastArgs.params.name = "c1"
    /\ lastArgs.params.detach
    /\ Len(lastArgs.params.volumes) = 2
    /\ lastArgs.params.ports # <<>>
    /\ lastArgs.params.environment # <<>>
    /\ lastArgs.params.working_dir # ""
    /\ lastArgs.params.command = <<"sleep", "infinity">>

----------------------------------------------------------------------------
(* The command of a Podman run vector, checked under SpecBuild.  A command *)
(* is its words, which single spaces separate.                             *)

\* The command has one of && || ; | > < somewhere in its text.
MetaInCommand(command) ==
    \E i \in DOMAIN command :
        \/ command[i] \in {"&&", "||", ";", "|", ">", "<"}
        \/ command[i] = "a|b"

----------------------------------------------------------------------------
(* The cache directory of a manager inside a container, under Spec.        *)

\* C26: a manager constructed inside a container never has its cache
\* directory under the home directory, whichever directory creations
\* succeed or fail.
C26_NeverHomeInsideContainer ==
    (pc = "ready" /\ _is_inside_container(env)) => sif_dir # HomeSifDir

----------------------------------------------------------------------------
(* The verification of a detached run, checked under Spec.                 *)

\* The last operation asked the runtime's process list for the container.
StatusQueried ==
    \E i \in DOMAIN lastOp.calls :
        /\ lastOp.calls[i].kind = "run"
        /\ lastOp.calls[i].args # <<>>
        /\ lastOp.calls[i].args[1] = W("ps")

\* C27: a detached run_container returns a handle only if the process
\* list was queried and showed the container with a status that holds
\* "up" or "running" in any letter case.
C27_HandleOnlyIfUp ==
    (/\ lastArgs.op = "run_container"
     /\ lastArgs.params.detach
     /\ lastOp.exc = "none"
     /\ lastOp.ret = "handle") =>
        /\ StatusQueried
        /\ lastArgs.world.ps \in {"up", "running", "lower_up"}

----------------------------------------------------------------------------
(* The build command of Docker and Podman, checked under Spec.             *)

\* C28: on Docker and Podman build_image spawns exactly
\* `<bin> build -t <tag> -f <dockerfile> <context>` and returns False,
\* without raising, when that subprocess exits non-zero.
C28_BuildVector ==
    (lastArgs.op = "build_image" /\ runtime \in {DOCKER, PODMAN}) =>
        /\ lastOp.calls =
               <<RunCall(runtime, <<W("build"), W("-t"), W("tag"), W("-f"),
                                    W("Dockerfile"), W("ctx")>>)>>
        /\ lastArgs.out = "nonzero" => (lastOp.exc = "none" /\ lastOp.ret = "False")

----------------------------------------------------------------------------
(* The signal file between the two monitors, checked under SpecMonitor.    *)

\* C29: the host never removes a signal file that was written after its
\* most recent auto-save began.
C29_NoSignalLost == [][(mon.signal /\ ~mon'.signal) => ~mon.pending]_vars

----------------------------------------------------------------------------
(* References that share a cache file, checked under SpecCache.            *)

\* The last operation looked for the cache file of its reference and found
\* it there.
FoundInCache ==
    /\ lastArgs.op = "_build_apptainer_run_command"
    /\ lastArgs.world.exists

\* The files of the cache at the path the last operation looked at.
FilesLookedAt == {file \in cache : file.path = SifPath(sif_dir, lastArgs.image)}

\* Two references are the same but for which of "/" and ":" stands where.
SameButSeparators(a, b) ==
    /\ Len(a) = Len(b)
    /\ \A i \in DOMAIN a : a[i] = b[i] \/ (a[i] \in {"/", ":"} /\ b[i] \in {"/", ":"})

\* C30 as stated: the existence check for a reference is satisfied only by
\* a file pulled for that very reference.
C30_CacheFileInjective ==
    FoundInCache => \A file \in FilesLookedAt : file.image = lastArgs.image

\* C30, amended: every reference has one cache file, and the existence
\* check for a reference is satisfied exactly by the files pulled for
\* references that equal it once each "/" and ":" is read as "-".
C30_CacheFilePerSanitisedName ==
    lastArgs.op = "_build_apptainer_run_command" =>
        /\ \A file \in cache :
               file \in FilesLookedAt <=> SameButSeparators(file.image, lastArgs.image)
        /\ lastArgs.world.exists => FilesLookedAt # {}
        /\ ~lastArgs.world.exists =>
               \A file \in FilesLookedAt : file.image = lastArgs.image

\* The file pulled for one reference satisfied the check for another.
C30_Witness ==
    /\ FoundInCache
    /\ \E file \in FilesLookedAt : file.image # lastArgs.image

====
